---------------------------- MODULE Spec2Model ----------------------------
(***************************************************************************)
(* A model of the file-sharing replication engine of the peer crate:       *)
(* SharedFile (src/peer/src/shared_file.rs), the per-piece queues          *)
(* (src/peer/src/file_pieces_queues.rs) and the piece-sending step of      *)
(* LocalPeer (src/peer/src/local_peer.rs).                                 *)
(*                                                                         *)
(* A SharedFile is one record; every public method is an operator from a   *)
(* SharedFile record (and the call's arguments) to the record after the    *)
(* call, with the call's result in the field "ret" and an abort of the     *)
(* call (a Rust panic) in the field "panic".  usize is 32 bits wide on the  *)
(* wasm32 target of the client and 64 bits wide where the tests of         *)
(* shared_file.rs run; an overflow of usize arithmetic is a panic in a     *)
(* build that checks it and wraps in a build that does not.                *)
(***************************************************************************)
EXTENDS Integers, Sequences, FiniteSets, TLC

(***************************************************************************)
(* Bounds of the model.                                                    *)
(***************************************************************************)
NumPieces == 2      \* pieces of the file of the general specification
MaxPeers == 2       \* peer ids 1..MaxPeers
MaxTime == 1        \* times 0..MaxTime
MaxSent == 2        \* entries kept in sent_pieces
MaxCalls == 6       \* calls made on the SharedFile in one run
MaxDrift == 1       \* recorded owner counts stay within MaxPeers + MaxDrift
SeedPieces == 3     \* pieces of the seeder's file
SeedPeers == 4      \* peers 1..SeedPeers of the seeder
MaxSeedCalls == 7   \* calls made on the seeder's SharedFile in one run
MaxProbePiece == 3  \* piece indices 0..MaxProbePiece of the probe sequences
MaxProbePeers == 4  \* numbers of peers 1..MaxProbePeers of the probe sequences
NumFiles == 2       \* files 1..NumFiles of the LocalPeer
FilePieces == 1     \* pieces of each file of the LocalPeer
MaxHandlers == 6    \* handlers and ticks of the LocalPeer in one run
MaxSockets == 3     \* connections the tracker accepts in one run
MaxMessages == 3    \* messages the tracker receives in one run
MaxRelayed == 1     \* signaling frames the tracker relays in one run
MaxToSend == 2      \* num_pieces_to_be_sent is in 1..MaxToSend
MaxBuffer == 1      \* max_buffer_bytes is in 0..MaxBuffer FilePiece messages
QueuePieces == 3    \* pieces of the queues on their own
MaxKey == 2         \* possible-owner counts 0..MaxKey of the queues on their own
StatePieces == 2    \* pieces of the file whose state is broadcast
MaxSendSteps == 2   \* handlers and ticks of the LocalPeer once the swarm is set up
ReplicaPieces == 2  \* pieces of the file a sender replicates to its receiver

Pieces == 0 .. (NumPieces - 1)
PeerIds == 1 .. MaxPeers
Times == 0 .. MaxTime
FileIds == 1 .. NumFiles

NoPanic == "none"

(***************************************************************************)
(* fxhash::hash64 of a FilePieceIdx: FxHasher64 starts at 0 and hashes the *)
(* one usize word as (rotl(0, 5) xor word) * SEED64 modulo 2^64.  64-bit   *)
(* values are sequences of 8 bytes, least significant first.               *)
(***************************************************************************)
SEED64 == << 149, 10, 34, 39, 183, 193, 124, 81 >>   \* 0x517cc1b727220a95

Pow256 == << 1, 256, 65536, 16777216 >>

ToBytes(n) == [k \in 1..8 |-> IF k > 4 THEN 0 ELSE (n \div Pow256[k]) % 256]

WrappingMul64(a, b) ==
    LET Col(k) ==
            LET part[i \in 0..k] ==
                    IF i = 0 THEN 0 ELSE part[i - 1] + a[i] * b[k + 1 - i]
            IN  part[k]
        carry[k \in 0..8] ==
            IF k = 0 THEN 0 ELSE (Col(k) + carry[k - 1]) \div 256
    IN  [k \in 1..8 |-> (Col(k) + carry[k - 1]) % 256]

FxHash64(piece_idx) == WrappingMul64(ToBytes(piece_idx), SEED64)

\* (value of bytes lo..hi of h) % d, by Horner's rule from the top byte
BytesMod(h, lo, hi, d) ==
    LET r[k \in (lo - 1)..hi] ==
            IF k = hi THEN h[hi] % d
            ELSE IF k < lo THEN 0
            ELSE (r[k + 1] * 256 + h[k]) % d
    IN  r[lo]

Max(a, b) == IF a >= b THEN a ELSE b
Min(a, b) == IF a <= b THEN a ELSE b

\* the hashes of the piece indices the specifications use, computed once
HashedPieces == 0 .. Max(Max(NumPieces, SeedPieces), MaxProbePiece)
PieceHash == [piece_idx \in HashedPieces |-> FxHash64(piece_idx)]

\* peer_idx_mult of select_piece_peer, for num_peers >= 1
PeerIdxMult(piece_idx, num_peers) ==
    BytesMod(PieceHash[piece_idx], 5, 8, Max(num_peers - 1, 1)) + 1

\* a + n for a usize a of w bytes and a small n: w + 1 bytes, the last one
\* the carry out of the usize
UsizeAdd(a, n) ==
    LET w == Len(a)
        carry[k \in 0..w] == IF k = 0 THEN n ELSE (a[k] + carry[k - 1]) \div 256
    IN  [k \in 1..(w + 1) |-> IF k <= w THEN (a[k] + carry[k - 1]) % 256 ELSE carry[w]]

\* a * m for a usize a of w bytes and a small m, with the carry out as above
UsizeMul(a, m) ==
    LET w == Len(a)
        carry[k \in 0..w] == IF k = 0 THEN 0 ELSE (a[k] * m + carry[k - 1]) \div 256
    IN  [k \in 1..(w + 1) |-> IF k <= w THEN (a[k] * m + carry[k - 1]) % 256 ELSE carry[w]]

\* the closure offset(shift) of select_piece_peer, for num_peers >= 1, on a
\* target whose usize has usize_bits bits:
\* (peer_idx_mult * (peer_idx_offset + shift)) % num_peers in usize
\* arithmetic.  overflows tells that the sum or the product does not fit the
\* usize: a panic where overflow is checked, the wrapped value elsewhere.
ProbeOffsetOn(usize_bits, piece_idx, num_peers, shift) ==
    LET w == usize_bits \div 8
        peer_idx_offset == [k \in 1..w |-> IF k <= 4 THEN PieceHash[piece_idx][k] ELSE 0]
        sum == UsizeAdd(peer_idx_offset, shift)
        product == UsizeMul(SubSeq(sum, 1, w), PeerIdxMult(piece_idx, num_peers))
    IN  [offset    |-> BytesMod(product, 1, w, num_peers),
         overflows |-> sum[w + 1] # 0 \/ product[w + 1] # 0]

\* offset(shift) as the client computes it: wasm32, a usize of 32 bits
ProbeOffset(piece_idx, num_peers, shift) ==
    ProbeOffsetOn(32, piece_idx, num_peers, shift)


(***************************************************************************)
(* Option<T> is a sequence of at most one element.                         *)
(***************************************************************************)
NoneOpt == << >>
Some(v) == << v >>
IsSome(o) == o # << >>
Unwrap(o) == o[1]

(***************************************************************************)
(* FileState: a bitmap over the pieces (file_state.rs).                    *)
(***************************************************************************)
PieceRange(num_pieces) == 0 .. (num_pieces - 1)
from_missing(num_pieces) == [i \in PieceRange(num_pieces) |-> FALSE]
from_complete(num_pieces) == [i \in PieceRange(num_pieces) |-> TRUE]
\* FileState & &FileState: the words of a and b are ANDed, so the result is
\* as long as the words of a; its bits at the piece indices, the only ones
\* read, are kept
BitAnd(a, b) == [i \in DOMAIN a |-> a[i] /\ b[i]]
\* FileState::len
StateLen(state) == Cardinality(DOMAIN state)

(***************************************************************************)
(* FilePiecesQueues (file_pieces_queues.rs).  The revision of this file in *)
(* the repository keeps one owner count per piece; SharedFile hands it a   *)
(* FilePieceData with num_confirmed_owners and num_possible_owners, and    *)
(* its tests read the bucket key as the possible-owner count.  add,        *)
(* remove and next_queue are modelled as written, with                     *)
(* num_possible_owners as the bucket key and num_confirmed_owners stored   *)
(* beside it.  Offsets and bucket indices count from 0 as in the code.     *)
(***************************************************************************)
DefaultQueuePiece ==
    [num_confirmed_owners |-> 0, num_possible_owners |-> 0,
     peer_shift |-> 0, offset |-> NoneOpt]

NewQueues(num_pieces) ==
    [pieces |-> [i \in PieceRange(num_pieces) |-> DefaultQueuePiece],
     queues |-> << >>,
     next_queue_idx |-> NoneOpt]

\* FilePiecesQueuePiece::list_idx
ListIdx(piece) == piece.num_possible_owners

\* Vec::get_mut_or_resize_default (vec_ext.rs): the vector with index key valid
ResizeDefault(queues, key) ==
    IF Len(queues) <= key
    THEN queues \o [k \in 1..(key + 1 - Len(queues)) |-> << >>]
    ELSE queues

\* FilePiecesQueues::next_queue: the bucket key and its pieces, or None
NextQueue(q) ==
    IF IsSome(q.next_queue_idx)
    THEN Some([key |-> Unwrap(q.next_queue_idx),
               pieces |-> q.queues[Unwrap(q.next_queue_idx) + 1]])
    ELSE NoneOpt

\* FilePiecesQueues::add: [ok, q]
QueueAdd(q, piece_idx, data) ==
    IF IsSome(q.pieces[piece_idx].offset)
    THEN [ok |-> FALSE, q |-> q]
    ELSE
        LET list_idx == ListIdx(data)
            nqi == IF IsSome(q.next_queue_idx)
                   THEN Min(Unwrap(q.next_queue_idx), list_idx)
                   ELSE list_idx
            resized == ResizeDefault(q.queues, list_idx)
            offset == Len(resized[list_idx + 1])
        IN  [ok |-> TRUE,
             q |-> [pieces |->
                        [q.pieces EXCEPT ![piece_idx] =
                            [@ EXCEPT
                                !.num_confirmed_owners = data.num_confirmed_owners,
                                !.num_possible_owners = data.num_possible_owners,
                                !.offset = Some(offset)]],
                    queues |-> [resized EXCEPT ![list_idx + 1] = Append(@, piece_idx)],
                    next_queue_idx |-> Some(nqi)]]

\* Vec::swap_remove at a 0-based offset
SwapRemove(list, offset) ==
    LET n == Len(list)
        cut == SubSeq(list, 1, n - 1)
    IN  IF offset = n - 1 THEN cut ELSE [cut EXCEPT ![offset + 1] = list[n]]

\* the forward scan of remove without the test for an empty bucket
ScanWithoutEmptyTest(queues, list_idx) ==
    IF list_idx >= Len(queues) THEN NoneOpt ELSE Some(list_idx)

\* the forward scan of remove for the first non-empty bucket from list_idx on
RECURSIVE ScanNextQueue(_, _)
ScanNextQueue(queues, list_idx) ==
    IF list_idx >= Len(queues) THEN NoneOpt
    ELSE IF queues[list_idx + 1] # << >> THEN Some(list_idx)
    ELSE ScanNextQueue(queues, list_idx + 1)

\* FilePiecesQueues::remove: [ok, q, data]
QueueRemove(q, piece_idx) ==
    LET piece == q.pieces[piece_idx] IN
    IF ~IsSome(piece.offset)
    THEN [ok |-> FALSE, q |-> q, data |-> DefaultQueuePiece]
    ELSE
        LET list_idx == ListIdx(piece)
            offset == Unwrap(piece.offset)
            resized == ResizeDefault(q.queues, list_idx)
            list == SwapRemove(resized[list_idx + 1], offset)
            queues == [resized EXCEPT ![list_idx + 1] = list]
            taken == [q.pieces EXCEPT ![piece_idx].offset = NoneOpt]
            pieces == IF offset < Len(list)
                      THEN [taken EXCEPT ![list[offset + 1]].offset = Some(offset)]
                      ELSE taken
            nqi == IF list_idx = Unwrap(q.next_queue_idx)
                   THEN ScanNextQueue(queues, list_idx)
                   ELSE q.next_queue_idx
        IN  [ok |-> TRUE,
             q |-> [pieces |-> pieces, queues |-> queues, next_queue_idx |-> nqi],
             data |-> [peer_shift |-> piece.peer_shift,
                       num_confirmed_owners |-> piece.num_confirmed_owners,
                       num_possible_owners |-> piece.num_possible_owners]]

\* FilePiecesQueues::get
QueueHas(q, piece_idx) == IsSome(q.pieces[piece_idx].offset)

(***************************************************************************)
(* SharedFile (shared_file.rs).  peers is the HashMap of the added peers;  *)
(* a peer without state has state = None.  sent_pieces maps each time to   *)
(* its vector of (peer, piece) entries, a time without entry to the empty  *)
(* vector.  Each method yields an outcome: the SharedFile after the call,  *)
(* the returned value, the panic that aborted the call (NoPanic if none),  *)
(* and dbg, true when a check that only a build with debug assertions      *)
(* compiles in (debug_assert!, arithmetic overflow) fails during the call. *)
(***************************************************************************)
NotSent == << "NotSent" >>
Sent(t) == << "Sent", t >>
Received == << "Received" >>

NewPeer == [state |-> NoneOpt, local_state_status |-> NotSent]

\* SharedFile::new on a File with the given local state
NewSharedFile(num_pieces, file_state) ==
    [num_pieces |-> num_pieces,
     file_state |-> file_state,
     confirmed_remote_state |-> from_complete(num_pieces),
     peers |-> << >>,
     shared_peers_order |-> << >>,
     piece_queues |-> NewQueues(num_pieces),
     sent_pieces |-> [t \in Times |-> << >>],
     recently_added_pieces |-> << >>]

Outcome(sf, ret, panic, dbg) ==
    [sf |-> sf, ret |-> ret, val |-> << >>, panic |-> panic, dbg |-> dbg]
Return(sf, ret) == Outcome(sf, ret, NoPanic, FALSE)
Panic(sf, why) == Outcome(sf, << "panic" >>, why, FALSE)
\* an outcome carrying a value: the peer of Ok(peer_id), a vector of pieces
WithVal(out, val) == [out EXCEPT !.val = val]

HasPeer(sf, peer_id) == peer_id \in DOMAIN sf.peers
PeersWithState(peers) == {p \in DOMAIN peers : IsSome(peers[p].state)}
PeerState(peers, p) == Unwrap(peers[p].state)

\* SharedFile::num_peers_with_state
NumPeersWithState(sf) == Len(sf.shared_peers_order)

num_piece_possible_owners(peers, piece_idx) ==
    Cardinality({p \in PeersWithState(peers) : PeerState(peers, p).possible[piece_idx]})

num_piece_confirmed_owners(peers, piece_idx) ==
    Cardinality({p \in PeersWithState(peers) : PeerState(peers, p).confirmed[piece_idx]})

\* a usize count that wrapped below zero is kept as a negative number, -k
\* for 2^w - k: the wrapping += 1 and -= 1 of a build without overflow checks
\* are then the integer ones, and <= on usize is ULe
ULe(a, b) == IF (a < 0) = (b < 0) THEN a <= b ELSE b < 0
\* += 1 or -= 1 on a usize count overflows
AddOverflows(a) == a = 0 - 1
SubOverflows(a) == a = 0

\* insert_piece: the queues after pieces.insert, whose result is dropped,
\* and whether one of its three debug assertions fails
insert_piece(pieces, peers, piece_idx, data) ==
    [q |-> QueueAdd(pieces, piece_idx, data).q,
     dbg |-> \/ data.num_possible_owners # num_piece_possible_owners(peers, piece_idx)
             \/ data.num_confirmed_owners # num_piece_confirmed_owners(peers, piece_idx)
             \/ ~ULe(data.num_confirmed_owners, data.num_possible_owners)]

\* SharedFile::add_peer
AddPeer(sf, peer_id) ==
    IF HasPeer(sf, peer_id) THEN Return(sf, << "Err", "PeerIsAlreadyAdded" >>)
    ELSE Return([sf EXCEPT !.peers = (peer_id :> NewPeer) @@ @], << "Ok" >>)

\* one insert_piece inside a loop over the pieces: acc is [q, panic, dbg]
InsertInLoop(acc, peers, piece_idx, data) ==
    LET Inserted(r) == [acc EXCEPT !.q = r.q, !.dbg = @ \/ r.dbg]
    IN  Inserted(insert_piece(acc.q, peers, piece_idx, data))

\* the loop of add_peer_state over the pieces from piece_idx on
RECURSIVE AddPeerStateLoop(_, _, _, _)
AddPeerStateLoop(acc, sf, state, piece_idx) ==
    IF piece_idx >= sf.num_pieces \/ acc.panic # NoPanic THEN acc
    ELSE
        LET local == sf.file_state[piece_idx]
            remote == sf.confirmed_remote_state[piece_idx]
            peer == state[piece_idx]
            max_prev_owners == Len(sf.shared_peers_order)
        IN  IF local /\ remote /\ ~peer THEN
                AddPeerStateLoop(
                    InsertInLoop(acc, sf.peers, piece_idx,
                        [peer_shift |-> 0,
                         num_confirmed_owners |-> max_prev_owners,
                         num_possible_owners |-> max_prev_owners]),
                    sf, state, piece_idx + 1)
            ELSE IF local /\ ~remote /\ peer THEN
                LET Removed(r) ==
                        IF ~r.ok THEN [acc EXCEPT !.panic = "unwrap"]
                        ELSE AddPeerStateLoop(
                                InsertInLoop(
                                    [acc EXCEPT
                                        !.q = r.q,
                                        !.dbg = @ \/ AddOverflows(r.data.num_confirmed_owners)],
                                    sf.peers, piece_idx,
                                    [r.data EXCEPT !.num_confirmed_owners = @ + 1,
                                                   !.num_possible_owners = @ + 1]),
                                sf, state, piece_idx + 1)
                IN  Removed(QueueRemove(acc.q, piece_idx))
            ELSE AddPeerStateLoop(acc, sf, state, piece_idx + 1)

\* SharedFile::add_peer_state
AddPeerState(sf, peer_id, state) ==
    IF ~HasPeer(sf, peer_id) THEN Return(sf, << "Err", "PeerIsNotAdded" >>)
    ELSE IF IsSome(sf.peers[peer_id].state)
    THEN Return(sf, << "Err", "PeerIsAlreadyHasState" >>)
    ELSE IF StateLen(state) # sf.num_pieces
    THEN Return(sf, << "Err", "PeerInvalidStateLen" >>)
    ELSE
        LET peer_idx == Len(sf.shared_peers_order)
            Looped(acc) ==
                IF acc.panic # NoPanic THEN Panic(sf, acc.panic)
                ELSE Outcome(
                        [sf EXCEPT
                            !.piece_queues = acc.q,
                            !.confirmed_remote_state = BitAnd(@, state),
                            !.shared_peers_order = Append(@, peer_id),
                            !.peers[peer_id].state =
                                Some([peer_idx |-> peer_idx,
                                      confirmed |-> state,
                                      possible |-> state])],
                        << "Ok" >>, NoPanic, acc.dbg)
        IN  Looped(AddPeerStateLoop(
                       [q |-> sf.piece_queues, panic |-> NoPanic, dbg |-> FALSE],
                       sf, state, 0))

\* the loop of remove_peer_state over the pieces from piece_idx on; peers is
\* the map after the removed peer's state was taken, state its confirmed bitmap
RECURSIVE RemovePeerStateLoop(_, _, _, _, _)
RemovePeerStateLoop(acc, sf, peers, state, piece_idx) ==
    IF piece_idx >= sf.num_pieces \/ acc.panic # NoPanic THEN acc
    ELSE
        LET local == sf.file_state[piece_idx]
            remote == sf.confirmed_remote_state[piece_idx]
            peer == state[piece_idx]
            Dropped(r) ==
                IF ~r.ok THEN [acc EXCEPT !.panic = "unwrap"]
                ELSE RemovePeerStateLoop([acc EXCEPT !.q = r.q],
                                         sf, peers, state, piece_idx + 1)
            Removed(r) ==
                IF ~r.ok THEN [acc EXCEPT !.panic = "unwrap"]
                ELSE IF SubOverflows(r.data.num_possible_owners)
                THEN [acc EXCEPT !.panic = "overflow"]
                ELSE RemovePeerStateLoop(
                        InsertInLoop(
                            [acc EXCEPT
                                !.q = r.q,
                                !.dbg = @ \/ SubOverflows(r.data.num_confirmed_owners)],
                            peers, piece_idx,
                            [r.data EXCEPT !.num_confirmed_owners = @ - 1,
                                           !.num_possible_owners = @ - 1]),
                        sf, peers, state, piece_idx + 1)
        IN  IF local /\ remote /\ ~peer THEN Dropped(QueueRemove(acc.q, piece_idx))
            ELSE IF local /\ ~remote /\ peer THEN Removed(QueueRemove(acc.q, piece_idx))
            ELSE RemovePeerStateLoop(acc, sf, peers, state, piece_idx + 1)

\* the fold of remove_peer_state: the AND of the confirmed bitmaps of the
\* peers with state, all ones when there is none
FoldConfirmed(peers, num_pieces) ==
    [i \in PieceRange(num_pieces) |->
        \A p \in PeersWithState(peers) : PeerState(peers, p).confirmed[i]]

\* SharedFile::remove_peer_state
RemovePeerState(sf, peer_id) ==
    IF ~HasPeer(sf, peer_id) THEN Return(sf, << "Err", "PeerIsNotAdded" >>)
    ELSE IF ~IsSome(sf.peers[peer_id].state)
    THEN Return(sf, << "Err", "PeerStateIsAlreadyRemoved" >>)
    ELSE
        LET peer_state == Unwrap(sf.peers[peer_id].state)
            peers == [sf.peers EXCEPT ![peer_id].state = NoneOpt]
        IN  IF peer_state.peer_idx >= Len(sf.shared_peers_order)
            THEN Panic(sf, "index")
            ELSE
                LET order == SwapRemove(sf.shared_peers_order, peer_state.peer_idx)
                    Keep(entry) == entry[1] # peer_id
                    Looped(acc) ==
                        IF acc.panic # NoPanic THEN Panic(sf, acc.panic)
                        ELSE Outcome(
                                [sf EXCEPT
                                    !.peers = peers,
                                    !.shared_peers_order = order,
                                    !.piece_queues = acc.q,
                                    !.confirmed_remote_state =
                                        FoldConfirmed(peers, sf.num_pieces),
                                    !.sent_pieces =
                                        [t \in DOMAIN @ |-> SelectSeq(@[t], Keep)]],
                                << "Ok" >>, NoPanic, acc.dbg)
                IN  Looped(RemovePeerStateLoop(
                               [q |-> sf.piece_queues, panic |-> NoPanic, dbg |-> FALSE],
                               sf, peers, peer_state.confirmed, 0))

\* an outcome with the debug failure of an earlier step of the same call
WithDbg(out, dbg) == [out EXCEPT !.dbg = @ \/ dbg]

\* SharedFile::remove_peer
RemovePeer(sf, peer_id) ==
    LET Detached(r) ==
            IF r.panic # NoPanic THEN r
            ELSE IF r.ret = << "Err", "PeerIsNotAdded" >> THEN r
            ELSE Outcome(
                    [r.sf EXCEPT !.peers = [p \in (DOMAIN @) \ {peer_id} |-> @[p]]],
                    << "Ok" >>, NoPanic, r.dbg)
    IN  Detached(RemovePeerState(sf, peer_id))

\* SharedFile::set_peer_state
SetPeerState(sf, peer_id, state) ==
    LET Detached(r) ==
            IF r.panic # NoPanic THEN r
            ELSE IF r.ret = << "Err", "PeerIsNotAdded" >> THEN r
            ELSE WithDbg(AddPeerState(r.sf, peer_id, state), r.dbg)
    IN  Detached(RemovePeerState(sf, peer_id))

\* SharedFile::set_peer_file_missing
SetPeerFileMissing(sf, peer_id) ==
    SetPeerState(sf, peer_id, from_missing(sf.num_pieces))

\* SharedFile::set_peer_file_complete
SetPeerFileComplete(sf, peer_id) ==
    SetPeerState(sf, peer_id, from_complete(sf.num_pieces))

\* add_local_piece once set_piece has returned JustSet: the piece is noted as
\* recently added and queued unless every peer has confirmed it
AddLocalPieceSet(sf, piece_idx) ==
    LET sf1 == [sf EXCEPT !.file_state[piece_idx] = TRUE,
                          !.recently_added_pieces = Append(@, piece_idx)]
        num_confirmed_owners == num_piece_confirmed_owners(sf.peers, piece_idx)
        num_possible_owners == num_piece_possible_owners(sf.peers, piece_idx)
    IN  IF num_confirmed_owners = Cardinality(DOMAIN sf.peers)
        THEN Return(sf1, << "Ok" >>)
        ELSE IF ~(num_confirmed_owners <= num_possible_owners)
        THEN Panic(sf, "assert")
        ELSE
            LET Inserted(r) ==
                    Outcome([sf1 EXCEPT !.piece_queues = r.q], << "Ok" >>, NoPanic, r.dbg)
            IN  Inserted(insert_piece(sf.piece_queues, sf.peers, piece_idx,
                             [peer_shift |-> 0,
                              num_confirmed_owners |-> num_confirmed_owners,
                              num_possible_owners |-> num_possible_owners]))

\* add_local_piece without the AlreadySet result of set_piece
AddLocalPieceAlways(sf, piece_idx) ==
    AddLocalPieceSet(sf, piece_idx)

\* SharedFile::add_local_piece with data of the piece's length
AddLocalPiece(sf, piece_idx) ==
    IF sf.file_state[piece_idx]
    THEN Return(sf, << "Err", "PieceIsAlreadySet" >>)
    ELSE AddLocalPieceSet(sf, piece_idx)

\* SharedFile::take_recently_added_pieces: val is the vector taken
TakeRecentlyAddedPieces(sf) ==
    WithVal(Return([sf EXCEPT !.recently_added_pieces = << >>], << "Ok" >>),
            sf.recently_added_pieces)

\* number of entries of sent_pieces
RECURSIVE SumLen(_, _)
SumLen(sent, ts) ==
    IF ts = {} THEN 0
    ELSE LET t == CHOOSE x \in ts : TRUE
         IN  Len(sent[t]) + SumLen(sent, ts \ {t})
TotalSent(sf) == SumLen(sf.sent_pieces, DOMAIN sf.sent_pieces)

\* the probing loop of select_piece_peer from shift on, num_peers >= 1; piece
\* is the data removed from the queues, q the queues after the removal
RECURSIVE SelectLoop(_, _, _, _, _, _)
SelectLoop(sf, q, piece, piece_idx, time, shift) ==
    LET num_peers == Len(sf.shared_peers_order)
        Chosen(peer_id, overflows) ==
            LET peers == [sf.peers EXCEPT
                             ![peer_id].state =
                                 Some([Unwrap(@) EXCEPT !.possible[piece_idx] = TRUE])]
                Inserted(r) ==
                    WithVal(
                        Outcome(
                            [sf EXCEPT
                                !.peers = peers,
                                !.piece_queues = r.q,
                                !.sent_pieces[time] = Append(@, << peer_id, piece_idx >>)],
                            << "Ok" >>, NoPanic, r.dbg \/ overflows),
                        << peer_id >>)
            IN  Inserted(insert_piece(q, peers, piece_idx,
                             [piece EXCEPT !.num_possible_owners = @ + 1,
                                           !.peer_shift = (shift + 1) % num_peers]))
        Probed(peer_id, overflows) ==
            IF ~HasPeer(sf, peer_id) \/ ~IsSome(sf.peers[peer_id].state)
            THEN Panic(sf, "unwrap")
            ELSE IF PeerState(sf.peers, peer_id).possible[piece_idx]
            THEN WithDbg(SelectLoop(sf, q, piece, piece_idx, time, shift + 1), overflows)
            ELSE Chosen(peer_id, overflows)
        At(probed) == Probed(sf.shared_peers_order[probed.offset + 1], probed.overflows)
    IN  IF shift >= piece.peer_shift + num_peers
        THEN Return([sf EXCEPT !.piece_queues = q], << "Err", "PieceIsAlreadyOwned" >>)
        ELSE At(ProbeOffset(piece_idx, num_peers, shift))

\* select_piece_peer without the push into sent_pieces
SelectWithoutSentRecord(sf, piece_idx, time) ==
    LET Unrecorded(out) == [out EXCEPT !.sf.sent_pieces = sf.sent_pieces]
        Removed(r) ==
            IF ~r.ok \/ Len(sf.shared_peers_order) = 0 THEN Panic(sf, "unwrap")
            ELSE Unrecorded(SelectLoop(sf, r.q, r.data, piece_idx, time, r.data.peer_shift))
    IN  IF ~(piece_idx < sf.num_pieces)
        THEN Return(sf, << "Err", "PieceIndexOutOfRange" >>)
        ELSE Removed(QueueRemove(sf.piece_queues, piece_idx))

\* SharedFile::select_piece_peer.  With no peer in shared_peers_order,
\* num_peers - 1 overflows (dbg) and the loop runs over the empty range.
SelectPiecePeer(sf, piece_idx, time) ==
    IF ~(piece_idx < sf.num_pieces)
    THEN Return(sf, << "Err", "PieceIndexOutOfRange" >>)
    ELSE
        LET Removed(r) ==
                IF ~r.ok THEN Panic(sf, "unwrap")
                ELSE IF Len(sf.shared_peers_order) = 0
                THEN Outcome([sf EXCEPT !.piece_queues = r.q],
                             << "Err", "PieceIsAlreadyOwned" >>, NoPanic, TRUE)
                ELSE SelectLoop(sf, r.q, r.data, piece_idx, time, r.data.peer_shift)
        IN  Removed(QueueRemove(sf.piece_queues, piece_idx))

\* mark_peer_state_with_piece_idx: the error it returns, or None
MarkPeerStateError(sf, peer_id, piece_idx) ==
    IF ~(piece_idx < sf.num_pieces) THEN Some("PieceIndexOutOfRange")
    ELSE IF ~HasPeer(sf, peer_id) THEN Some("PeerIsNotAdded")
    ELSE IF ~IsSome(sf.peers[peer_id].state) THEN Some("PeerStateIsNotAdded")
    ELSE NoneOpt

\* mark_peer_piece_as_received_by_remote without the set of the possible bit
MarkConfirmedOnly(sf, peer_id, piece_idx) ==
    LET err == MarkPeerStateError(sf, peer_id, piece_idx) IN
    IF IsSome(err) THEN Return(sf, << "Err", Unwrap(err) >>)
    ELSE
        LET state == PeerState(sf.peers, peer_id) IN
        IF state.confirmed[piece_idx] THEN Return(sf, << "Ok", "AlreadyMarked" >>)
        ELSE Return([sf EXCEPT !.peers[peer_id].state =
                                   Some([state EXCEPT !.confirmed[piece_idx] = TRUE])],
                    << "Ok", "JustMarked" >>)

\* SharedFile::mark_peer_piece_as_received_by_remote
MarkPeerPieceAsReceivedByRemote(sf, peer_id, piece_idx) ==
    LET err == MarkPeerStateError(sf, peer_id, piece_idx) IN
    IF IsSome(err) THEN Return(sf, << "Err", Unwrap(err) >>)
    ELSE
        LET state == PeerState(sf.peers, peer_id) IN
        IF state.confirmed[piece_idx] THEN Return(sf, << "Ok", "AlreadyMarked" >>)
        ELSE
            LET possible_just_set == ~state.possible[piece_idx]
                sf1 == [sf EXCEPT
                           !.peers[peer_id].state =
                               Some([state EXCEPT !.confirmed[piece_idx] = TRUE,
                                                  !.possible[piece_idx] = TRUE])]
            IN  IF ~sf.file_state[piece_idx]
                THEN Return(sf1, << "Ok", "JustMarked" >>)
                ELSE
                    LET Inserted(ins, overflows) ==
                            Outcome([sf1 EXCEPT !.piece_queues = ins.q],
                                    << "Ok", "JustMarked" >>, NoPanic,
                                    ins.dbg \/ overflows)
                        Counted(q, piece, overflows) ==
                            IF ~ULe(piece.num_confirmed_owners, piece.num_possible_owners)
                            THEN Panic(sf, "assert")
                            ELSE Inserted(insert_piece(q, sf1.peers, piece_idx, piece),
                                          overflows)
                        Removed(r) ==
                            IF ~r.ok THEN Panic(sf, "unwrap")
                            ELSE Counted(r.q,
                                         [r.data EXCEPT
                                             !.num_confirmed_owners = @ + 1,
                                             !.num_possible_owners =
                                                 IF possible_just_set THEN @ + 1 ELSE @],
                                         AddOverflows(r.data.num_confirmed_owners))
                    IN  Removed(QueueRemove(sf.piece_queues, piece_idx))

\* mark_for_resend_if_not_sent without the test of the confirmed bit: a piece
\* the peer has acknowledged is marked for resend as well
MarkForResendThoughReceived(sf, peer_id, piece_idx) ==
    LET err == MarkPeerStateError(sf, peer_id, piece_idx) IN
    IF IsSome(err) THEN Return(sf, << "Err", Unwrap(err) >>)
    ELSE
        LET state == PeerState(sf.peers, peer_id) IN
        IF ~state.possible[piece_idx] THEN Return(sf, << "Ok", "AlreadyMarked" >>)
        ELSE
            LET sf1 == [sf EXCEPT
                           !.peers[peer_id].state =
                               Some([state EXCEPT !.possible[piece_idx] = FALSE])]
                Inserted(ins) ==
                    Outcome([sf1 EXCEPT !.piece_queues = ins.q],
                            << "Ok", "JustMarked" >>, NoPanic, ins.dbg)
                Removed(r) ==
                    IF ~r.ok THEN Panic(sf, "unwrap")
                    ELSE IF SubOverflows(r.data.num_possible_owners)
                    THEN Panic(sf, "overflow")
                    ELSE Inserted(insert_piece(r.q, sf1.peers, piece_idx,
                                      [r.data EXCEPT !.num_possible_owners = @ - 1]))
            IN  Removed(QueueRemove(sf.piece_queues, piece_idx))

\* SharedFile::mark_for_resend_if_not_sent
MarkForResendIfNotSent(sf, peer_id, piece_idx) ==
    LET err == MarkPeerStateError(sf, peer_id, piece_idx) IN
    IF IsSome(err) THEN Return(sf, << "Err", Unwrap(err) >>)
    ELSE
        LET state == PeerState(sf.peers, peer_id) IN
        IF state.confirmed[piece_idx] THEN Return(sf, << "Ok", "Received" >>)
        ELSE IF ~state.possible[piece_idx] THEN Return(sf, << "Ok", "AlreadyMarked" >>)
        ELSE
            LET sf1 == [sf EXCEPT
                           !.peers[peer_id].state =
                               Some([state EXCEPT !.possible[piece_idx] = FALSE])]
                Inserted(ins) ==
                    Outcome([sf1 EXCEPT !.piece_queues = ins.q],
                            << "Ok", "JustMarked" >>, NoPanic, ins.dbg)
                Removed(r) ==
                    IF ~r.ok THEN Panic(sf, "unwrap")
                    ELSE IF SubOverflows(r.data.num_possible_owners)
                    THEN Panic(sf, "overflow")
                    ELSE Inserted(insert_piece(r.q, sf1.peers, piece_idx,
                                      [r.data EXCEPT !.num_possible_owners = @ - 1]))
            IN  Removed(QueueRemove(sf.piece_queues, piece_idx))

\* the entries of sent_pieces with a time before the given one, in the order
\* of BTreeMap::into_values: by time, then by position
RECURSIVE EntriesBefore(_, _, _)
EntriesBefore(sent, time, t) ==
    IF t >= time \/ t \notin DOMAIN sent THEN << >>
    ELSE sent[t] \o EntriesBefore(sent, time, t + 1)

\* the loop of mark_pieces_for_resend_before: the first error ends it
RECURSIVE ResendLoop(_, _, _)
ResendLoop(out, entries, k) ==
    IF k > Len(entries) \/ out.panic # NoPanic THEN out
    ELSE
        LET Marked(r) ==
                IF r.panic # NoPanic THEN r
                ELSE IF r.ret[1] = "Err" THEN WithDbg(r, out.dbg)
                ELSE ResendLoop(WithDbg(Return(r.sf, << "Ok" >>), out.dbg \/ r.dbg),
                                entries, k + 1)
        IN  Marked(MarkForResendIfNotSent(out.sf, entries[k][1], entries[k][2]))

\* mark_pieces_for_resend_before that forgets the sends before the given time
\* without marking their pieces for resend
ForgetPiecesBefore(sf, time) ==
    Return([sf EXCEPT !.sent_pieces =
               [t \in DOMAIN @ |-> IF t < time THEN << >> ELSE @[t]]],
           << "Ok" >>)

\* SharedFile::mark_pieces_for_resend_before
MarkPiecesForResendBefore(sf, time) ==
    LET not_sent == EntriesBefore(sf.sent_pieces, time, 0)
        sf1 == [sf EXCEPT !.sent_pieces =
                   [t \in DOMAIN @ |-> IF t < time THEN << >> ELSE @[t]]]
    IN  ResendLoop(Return(sf1, << "Ok" >>), not_sent, 1)

(***************************************************************************)
(* LocalPeer::on_peer_message (local_peer.rs), the part that acts on the   *)
(* SharedFile of the message: the peer is added if it is not, then the     *)
(* message is dispatched.  Errors of the SharedFile calls are logged and   *)
(* dropped, panics are not.  A FilePiece carries the bytes of an in-range  *)
(* piece.                                                                  *)
(***************************************************************************)
FileMissing == [kind |-> "FileMissing"]
FileComplete == [kind |-> "FileComplete"]
FileStateMsg(state) == [kind |-> "FileState", state |-> state]
FileStateReceived == [kind |-> "FileStateReceived"]
FilePiece(piece_idx) == [kind |-> "FilePiece", piece_idx |-> piece_idx]
FilePiecesReceived(pieces) == [kind |-> "FilePiecesReceived", pieces |-> pieces]
FileRemoved == [kind |-> "FileRemoved"]

\* the loop over the pieces of a FilePiecesReceived from index k on
RECURSIVE MarkReceivedLoop(_, _, _, _)
MarkReceivedLoop(out, peer_id, pieces, k) ==
    IF k > Len(pieces) \/ out.panic # NoPanic THEN out
    ELSE MarkReceivedLoop(
             WithDbg(MarkPeerPieceAsReceivedByRemote(out.sf, peer_id, pieces[k]), out.dbg),
             peer_id, pieces, k + 1)

OnPeerMessage(sf, peer_id, message) ==
    LET added == AddPeer(sf, peer_id).sf IN
    CASE message.kind = "FileMissing" -> SetPeerFileMissing(added, peer_id)
      [] message.kind = "FileComplete" -> SetPeerFileComplete(added, peer_id)
      [] message.kind = "FileState" -> SetPeerState(added, peer_id, message.state)
      [] message.kind = "FileStateReceived" ->
            Return([added EXCEPT !.peers[peer_id].local_state_status = Received],
                   << "Ok" >>)
      [] message.kind = "FilePiece" ->
            IF ~(message.piece_idx < added.num_pieces
                 /\ added.file_state[message.piece_idx])
            THEN AddLocalPiece(added, message.piece_idx)
            ELSE Return(added, << "Ok" >>)
      [] message.kind = "FilePiecesReceived" ->
            MarkReceivedLoop(Return(added, << "Ok" >>), peer_id, message.pieces, 1)
      [] message.kind = "FileRemoved" -> RemovePeer(added, peer_id)

(***************************************************************************)
(* LocalPeer (local_peer.rs).  files is the registry of the added files,   *)
(* each with its SharedFile; peers holds one RemotePeer per linked peer:   *)
(* whether its data channel is open and the amount it has buffered, in     *)
(* FilePiece messages; params are the SenderParams the tick runs with and  *)
(* now the time of the last tick.  A handler yields the LocalPeer after    *)
(* it, the messages it sent in order, the select_piece_peer calls it made, *)
(* and its panic: with debug the failing debug checks panic as well.       *)
(***************************************************************************)
Tracker == 0    \* the addressee of the messages sent to the tracker

NewLocalPeer(params) ==
    [files |-> << >>, peers |-> << >>, params |-> params, now |-> 0]

\* RemotePeer::new: the data channel is connecting, nothing is buffered
NewRemotePeer == [open |-> FALSE, buffered |-> 0]

Message(to, file, kind, body) ==
    [to |-> to, file |-> file, kind |-> kind, body |-> body]

Handling(lp, debug) ==
    [lp |-> lp, outbox |-> << >>, selected |-> << >>, panic |-> NoPanic,
     debug |-> debug]

Sending(h, message) == [h EXCEPT !.outbox = Append(@, message)]
Aborted(h, why) == [h EXCEPT !.panic = why]

\* the handler state after a SharedFile method with outcome out on file f
Absorb(h, f, out) ==
    IF out.panic # NoPanic THEN Aborted(h, out.panic)
    ELSE IF out.dbg /\ h.debug THEN Aborted(h, "debug")
    ELSE [h EXCEPT !.lp.files[f] = out.sf]

\* a map with key k set to v
Put(map, k, v) == [x \in DOMAIN map \cup {k} |-> IF x = k THEN v ELSE map[x]]

RECURSIVE Ascending(_)
Ascending(S) ==
    IF S = {} THEN << >>
    ELSE LET least == CHOOSE x \in S : \A y \in S : x <= y
         IN  << least >> \o Ascending(S \ {least})

\* add_file that announces the file to the tracker before it looks at the
\* registry entry
AddFileAnnouncingFirst(h, f, num_pieces, state) ==
    IF f \in DOMAIN h.lp.files
    THEN Sending(h, Message(Tracker, f, "RequestOffers", << >>))
    ELSE Sending([h EXCEPT !.lp.files = Put(@, f, NewSharedFile(num_pieces, state))],
                 Message(Tracker, f, "RequestOffers", << >>))

\* the result of LocalPeer::add_file
AddFileResult(h, f) ==
    IF f \in DOMAIN h.lp.files THEN << "Err", "AlreadyAdded" >> ELSE << "Ok" >>

\* LocalPeer::add_file
AddFile(h, f, num_pieces, state) ==
    IF f \in DOMAIN h.lp.files THEN h
    ELSE Sending([h EXCEPT !.lp.files = Put(@, f, NewSharedFile(num_pieces, state))],
                 Message(Tracker, f, "RequestOffers", << >>))

\* LocalPeer::on_tracker_message, TrackerPeerMessage::RequestOffer
OnRequestOffer(h, peer_id, f) ==
    IF f \notin DOMAIN h.lp.files THEN h
    ELSE LET linked == IF peer_id \in DOMAIN h.lp.peers THEN h
                       ELSE [h EXCEPT !.lp.peers = Put(@, peer_id, NewRemotePeer)]
         IN  Absorb(linked, f, AddPeer(linked.lp.files[f], peer_id))

\* LocalPeer::on_tracker_message, TrackerPeerMessage::PeerOffer
OnPeerOffer(h, peer_id) ==
    IF peer_id \in DOMAIN h.lp.peers THEN h
    ELSE [h EXCEPT !.lp.peers = Put(@, peer_id, NewRemotePeer)]

\* RemotePeer::send: the data channel takes a message only when it is open
Send(h, message) ==
    IF ~h.lp.peers[message.to].open THEN Aborted(h, "unwrap")
    ELSE Sending(h, message)

\* LocalPeer::on_peer_message for a message of remote_peer about file f
OnRemoteMessage(h, peer_id, f, message) ==
    IF f \notin DOMAIN h.lp.files THEN h
    ELSE LET Matched(done) ==
                 IF done.panic = NoPanic
                    /\ message.kind \in {"FileMissing", "FileComplete", "FileState"}
                 THEN Send(done, Message(peer_id, f, "FileStateReceived", << >>))
                 ELSE done
         IN  Matched(Absorb(h, f, OnPeerMessage(h.lp.files[f], peer_id, message)))

\* the state message of send_state_to_remote_peers for a file
StateMessage(to, f, sf) ==
    IF \A i \in DOMAIN sf.file_state : ~sf.file_state[i]
    THEN Message(to, f, "FileMissing", << >>)
    ELSE IF \A i \in DOMAIN sf.file_state : sf.file_state[i]
    THEN Message(to, f, "FileComplete", << >>)
    ELSE Message(to, f, "FileState", sf.file_state)

\* the body of the loops of send_state_to_remote_peers with the status set
\* before the link is tested
SendStateBeforeReady(h, f, peer_id, resend_before, current_time) ==
    LET status == h.lp.files[f].peers[peer_id].local_state_status
        marked == [h EXCEPT !.lp.files[f].peers[peer_id].local_state_status =
                                Sent(current_time)]
    IN  IF status = Received \/ (status # NotSent /\ status[2] > resend_before) THEN h
        ELSE IF peer_id \notin DOMAIN h.lp.peers THEN Aborted(h, "unwrap")
        ELSE IF ~h.lp.peers[peer_id].open THEN marked
        ELSE Sending(marked, StateMessage(peer_id, f, h.lp.files[f]))

\* the body of the loops of send_state_to_remote_peers for file f and peer_id
SendStateTo(h, f, peer_id, resend_before, current_time) ==
    LET status == h.lp.files[f].peers[peer_id].local_state_status
        should_resend == IF status = NotSent THEN TRUE
                         ELSE IF status = Received THEN FALSE
                         ELSE status[2] <= resend_before
    IN  IF ~should_resend THEN h
        ELSE IF peer_id \notin DOMAIN h.lp.peers THEN Aborted(h, "unwrap")
        ELSE IF ~h.lp.peers[peer_id].open THEN h
        ELSE Sending([h EXCEPT !.lp.files[f].peers[peer_id].local_state_status =
                                   Sent(current_time)],
                     StateMessage(peer_id, f, h.lp.files[f]))

\* the loops of a step of the tick over the files fs and the peers ps of the
\* first of them, both in ascending order
RECURSIVE SendStateLoop(_, _, _, _, _)
SendStateLoop(h, fs, ps, resend_before, current_time) ==
    IF h.panic # NoPanic \/ fs = << >> THEN h
    ELSE IF ps = << >>
    THEN IF Len(fs) = 1 THEN h
         ELSE SendStateLoop(h, Tail(fs), Ascending(DOMAIN h.lp.files[fs[2]].peers),
                            resend_before, current_time)
    ELSE SendStateLoop(SendStateTo(h, fs[1], ps[1], resend_before, current_time),
                       fs, Tail(ps), resend_before, current_time)

\* the peers of the first of the files fs, none when fs is empty
PeersOfFirst(h, fs) ==
    IF fs = << >> THEN << >> ELSE Ascending(DOMAIN h.lp.files[fs[1]].peers)

\* LocalPeer::send_state_to_remote_peers
SendStateToRemotePeers(h, resend_before, current_time) ==
    LET fs == Ascending(DOMAIN h.lp.files)
    IN  SendStateLoop(h, fs, PeersOfFirst(h, fs), resend_before, current_time)

\* the loop of send_recently_received_to_remote_peers over the peers ps of
\* file f, for the non-empty vector of pieces taken from it
RECURSIVE SendReceivedTo(_, _, _, _)
SendReceivedTo(h, f, ps, pieces) ==
    IF h.panic # NoPanic \/ ps = << >> THEN h
    ELSE IF ps[1] \notin DOMAIN h.lp.peers THEN Aborted(h, "unwrap")
    ELSE SendReceivedTo(
             IF h.lp.peers[ps[1]].open
             THEN Sending(h, Message(ps[1], f, "FilePiecesReceived", pieces))
             ELSE h,
             f, Tail(ps), pieces)

\* LocalPeer::send_recently_received_to_remote_peers, from file fs[1] on
RECURSIVE SendRecentlyReceivedToRemotePeers(_, _)
SendRecentlyReceivedToRemotePeers(h, fs) ==
    IF h.panic # NoPanic \/ fs = << >> THEN h
    ELSE LET Taken(taken) ==
                 IF taken.val = << >> THEN Absorb(h, fs[1], taken)
                 ELSE SendReceivedTo(Absorb(h, fs[1], taken), fs[1],
                                     PeersOfFirst(h, fs), taken.val)
         IN  SendRecentlyReceivedToRemotePeers(
                 Taken(TakeRecentlyAddedPieces(h.lp.files[fs[1]])), Tail(fs))

\* LocalPeer::resend_pieces_before, from file fs[1] on
RECURSIVE ResendPiecesBefore(_, _, _)
ResendPiecesBefore(h, fs, time) ==
    IF h.panic # NoPanic \/ fs = << >> THEN h
    ELSE ResendPiecesBefore(
             Absorb(h, fs[1], MarkPiecesForResendBefore(h.lp.files[fs[1]], time)),
             Tail(fs), time)

\* the scan of send_pieces_to_remote_peers over the files, in the order the
\* registry yields them, from the k-th on: the candidates file_pieces
RECURSIVE ScanFiles(_, _, _, _, _)
ScanFiles(files, order, k, min_possible_owners, file_pieces) ==
    IF k > Len(order) THEN file_pieces
    ELSE
        LET shared_file == files[order[k]]
            queue == NextQueue(shared_file.piece_queues)
        IN  IF ~IsSome(queue)
            THEN ScanFiles(files, order, k + 1, min_possible_owners, file_pieces)
            ELSE
                LET file_min_possible_owners == Unwrap(queue).key
                    pieces == Unwrap(queue).pieces
                    found == [j \in 1..Len(pieces) |-> << order[k], pieces[j] >>]
                    gives == file_min_possible_owners < NumPeersWithState(shared_file)
                IN  IF ~IsSome(min_possible_owners)
                       \/ file_min_possible_owners < Unwrap(min_possible_owners)
                    THEN ScanFiles(files, order, k + 1, Some(file_min_possible_owners),
                                   IF gives THEN file_pieces \o found ELSE file_pieces)
                    ELSE IF file_min_possible_owners = Unwrap(min_possible_owners)
                    THEN ScanFiles(files, order, k + 1, min_possible_owners,
                                   IF gives THEN found ELSE << >>)
                    ELSE ScanFiles(files, order, k + 1, min_possible_owners, file_pieces)

\* a select_piece_peer call of the piece-sending step: the file, the piece,
\* the peers with state of the file and those of them with the possible bit of
\* the piece, both before the call, whether the call returned a peer, and
\* whether the FilePiece was then handed to the data channel
Selection(f, shared_file, piece_idx, ok) ==
    [file |-> f, piece_idx |-> piece_idx,
     peers_with_state |-> Cardinality(PeersWithState(shared_file.peers)),
     possible_owners |-> num_piece_possible_owners(shared_file.peers, piece_idx),
     recorded_possible_owners |->
         shared_file.piece_queues.pieces[piece_idx].num_possible_owners,
     ok |-> ok, emitted |-> FALSE]

\* RemotePeer::send_with_max_buffer_size with a buffer at the ceiling taken
\* for one below it
SendUpToCeiling(h, message, max_buffer_bytes) ==
    IF ~(h.lp.peers[message.to].buffered <= max_buffer_bytes)
    THEN [h |-> h, filled |-> TRUE]
    ELSE [h |-> [Send(h, message) EXCEPT !.lp.peers[message.to].buffered = @ + 1],
          filled |-> FALSE]

\* RemotePeer::send_with_max_buffer_size: [h, filled]
SendWithMaxBufferSize(h, message, max_buffer_bytes) ==
    IF ~(h.lp.peers[message.to].buffered < max_buffer_bytes)
    THEN [h |-> h, filled |-> TRUE]
    ELSE [h |-> [Send(h, message) EXCEPT !.lp.peers[message.to].buffered = @ + 1],
          filled |-> FALSE]

\* the body of the inner loop of send_pieces_to_remote_peers for the
\* candidate (f, piece_idx) drawn from file_pieces: [h, filled]
SendPiece(h, f, piece_idx, max_buffer_bytes, current_time) ==
    LET shared_file == h.lp.files[f]
        Emitted(sent) ==
            IF sent.filled \/ sent.h.panic # NoPanic THEN sent
            ELSE [sent EXCEPT !.h.selected[Len(sent.h.selected)].emitted = TRUE]
        Selected(out, selected) ==
            IF selected.panic # NoPanic THEN [h |-> selected, filled |-> FALSE]
            ELSE IF out.ret # << "Ok" >>
                 \/ out.val[1] \notin DOMAIN h.lp.peers
                 \/ ~shared_file.file_state[piece_idx]
            THEN [h |-> Aborted(selected, "unwrap"), filled |-> FALSE]
            ELSE Emitted(SendWithMaxBufferSize(
                     selected, Message(out.val[1], f, "FilePiece", << piece_idx >>),
                     max_buffer_bytes))
        Absorbed(out, absorbed) ==
            Selected(out,
                     [absorbed EXCEPT !.selected =
                         Append(@, Selection(f, shared_file, piece_idx,
                                             absorbed.panic = NoPanic
                                                 /\ out.ret = << "Ok" >>))])
        Called(out) == Absorbed(out, Absorb(h, f, out))
    IN  Called(SelectPiecePeer(shared_file, piece_idx, current_time))

\* the loops of send_pieces_to_remote_peers with num_pieces_to_be_sent pieces
\* left to send and the candidates file_pieces left of the last scan, none
\* before the first scan: every handler state the draws of the random number
\* generator can lead to
RECURSIVE SendPiecesLoop(_, _, _, _, _, _)
SendPiecesLoop(h, order, file_pieces, num_pieces_to_be_sent, max_buffer_bytes, current_time) ==
    LET Scanned(found) ==
            IF found = << >> THEN {h}
            ELSE SendPiecesLoop(h, order, found, num_pieces_to_be_sent,
                                max_buffer_bytes, current_time)
        Drawn(idx, sent) ==
            IF sent.filled THEN {sent.h}
            ELSE SendPiecesLoop(sent.h, order, SwapRemove(file_pieces, idx),
                                num_pieces_to_be_sent - 1, max_buffer_bytes,
                                current_time)
    IN  IF h.panic # NoPanic \/ num_pieces_to_be_sent = 0 THEN {h}
        ELSE IF file_pieces = << >>
        THEN Scanned(ScanFiles(h.lp.files, order, 1, NoneOpt, << >>))
        ELSE UNION {Drawn(idx, SendPiece(h, file_pieces[idx + 1][1],
                                         file_pieces[idx + 1][2],
                                         max_buffer_bytes, current_time))
                    : idx \in 0..(Len(file_pieces) - 1)}

\* time.saturating_sub(interval)
SaturatingSub(time, interval) == Max(time - interval, 0)

\* the callback of the Sender with the acknowledgements broadcast before the
\* local state
TickAcknowledgingFirst(h, time, order) ==
    LET params == h.lp.params
        fs == Ascending(DOMAIN h.lp.files)
    IN  SendPiecesLoop(
            ResendPiecesBefore(
                SendStateToRemotePeers(
                    SendRecentlyReceivedToRemotePeers([h EXCEPT !.lp.now = time], fs),
                    SaturatingSub(time, params.state_resend_interval), time),
                fs, SaturatingSub(time, params.piece_resend_interval)),
            order, << >>, params.num_pieces_to_be_sent, params.max_buffer_bytes, time)

\* the callback of the Sender with the piece-sending step given one piece
\* more than num_pieces_to_be_sent
TickSendingOneMore(h, time, order) ==
    LET params == h.lp.params
        fs == Ascending(DOMAIN h.lp.files)
    IN  SendPiecesLoop(
            ResendPiecesBefore(
                SendRecentlyReceivedToRemotePeers(
                    SendStateToRemotePeers(
                        [h EXCEPT !.lp.now = time],
                        SaturatingSub(time, params.state_resend_interval), time),
                    fs),
                fs, SaturatingSub(time, params.piece_resend_interval)),
            order, << >>, params.num_pieces_to_be_sent + 1, params.max_buffer_bytes, time)

\* the callback of the Sender (sender.rs) at the given time, the registry
\* yielding the files in the given order to the piece-sending step
Tick(h, time, order) ==
    LET params == h.lp.params
        fs == Ascending(DOMAIN h.lp.files)
    IN  SendPiecesLoop(
            ResendPiecesBefore(
                SendRecentlyReceivedToRemotePeers(
                    SendStateToRemotePeers(
                        [h EXCEPT !.lp.now = time],
                        SaturatingSub(time, params.state_resend_interval), time),
                    fs),
                fs, SaturatingSub(time, params.piece_resend_interval)),
            order, << >>, params.num_pieces_to_be_sent, params.max_buffer_bytes, time)

(***************************************************************************)
(* File (file.rs): the metadata with the length, the chunks with the       *)
(* contents and the mask of the available pieces.  A length or an offset   *)
(* in bytes is a pair << q, r >> for q * FILE_PIECE_SIZE + r with          *)
(* r < FILE_PIECE_SIZE, so that files beyond 4 GiB have lengths the model  *)
(* can hold.  Of the pieces the model keeps the indices it is asked about: *)
(* present is the set of those whose mask bit is set, bytes the contents   *)
(* written to each (0: the zeros of a new chunk).  usize_bits is the width *)
(* of usize on the target, 32 for the wasm32 client.                       *)
(***************************************************************************)
FILE_PIECE_SIZE == 1024
FILE_CHUNK_SIZE == 1048576
NUM_PIECES_IN_CHUNK == FILE_CHUNK_SIZE \div FILE_PIECE_SIZE

\* num_pieces of File::new: (len + FILE_PIECE_SIZE - 1) / FILE_PIECE_SIZE
FileNumPieces(len) == len[1] + (IF len[2] > 0 THEN 1 ELSE 0)

\* num_chunks of File::new: (len + FILE_CHUNK_SIZE - 1) / FILE_CHUNK_SIZE
FileNumChunks(len) ==
    (FileNumPieces(len) + NUM_PIECES_IN_CHUNK - 1) \div NUM_PIECES_IN_CHUNK

\* File::new (nothing available) and File::from_file (everything available)
\* over the piece indices kept
NewFile(len, usize_bits, indices, complete) ==
    [len |-> len,
     usize_bits |-> usize_bits,
     present |-> IF complete THEN {i \in indices : i < FileNumPieces(len)} ELSE {},
     bytes |-> [i \in {j \in indices : j < FileNumPieces(len)} |-> 0]]

\* File::piece_len: offset = piece_idx * FILE_PIECE_SIZE in usize, then
\* min(len - offset, FILE_PIECE_SIZE) in u64.  The product modulo
\* 2^usize_bits is (piece_idx modulo 2^(usize_bits - 10)) * FILE_PIECE_SIZE;
\* a difference below zero wraps to a value far above FILE_PIECE_SIZE.
\* overflows tells that the product or the difference does not fit.
piece_len(file, piece_idx) ==
    LET offset == IF file.usize_bits > 40 THEN piece_idx
                  ELSE piece_idx % (2 ^ (file.usize_bits - 10))
    IN  [expected |-> IF offset > file.len[1] THEN FILE_PIECE_SIZE
                      ELSE IF file.len[1] - offset >= 1 THEN FILE_PIECE_SIZE
                      ELSE file.len[2],
         overflows |-> offset # piece_idx \/ offset > file.len[1]]

\* File::get_piece for a piece index kept: Some(contents) or None
get_piece(file, piece_idx) ==
    IF piece_idx \in file.present THEN Some(file.bytes[piece_idx]) ELSE NoneOpt

\* File::set_piece with data of data.len bytes and contents data.bytes.
\* chunk.set on a Uint8Array copies into the subarray clamped to the chunk
\* and panics when the subarray is shorter than the data; FileState::set
\* follows the write.
set_piece(file, piece_idx, data) ==
    LET Checked(len) ==
            LET fits == \/ data.len = 0
                        \/ piece_idx < file.len[1]
                        \/ piece_idx = file.len[1] /\ data.len <= file.len[2]
                written == IF data.len = 0 THEN file
                           ELSE [file EXCEPT !.bytes[piece_idx] = data.bytes]
            IN  IF data.len # len.expected
                THEN WithVal(Outcome(file, << "Err", "InvalidPieceLen" >>,
                                     NoPanic, len.overflows),
                             << len.expected >>)
                ELSE IF piece_idx \div NUM_PIECES_IN_CHUNK >= FileNumChunks(file.len)
                THEN Panic(file, "index")
                ELSE IF ~fits THEN Panic(file, "copy_from")
                ELSE IF piece_idx >= FileNumPieces(file.len)
                THEN Outcome(written, << "Err", "PieceIndexOutOfRange" >>,
                             NoPanic, len.overflows)
                ELSE IF piece_idx \in file.present
                THEN Outcome(written, << "Ok", "AlreadySet" >>, NoPanic, len.overflows)
                ELSE Outcome([written EXCEPT !.present = @ \cup {piece_idx}],
                             << "Ok", "JustSet" >>, NoPanic, len.overflows)
    IN  Checked(piece_len(file, piece_idx))

(***************************************************************************)
(* The state.                                                              *)
(*   sf                one SharedFile under the calls of its public methods*)
(*   last              the last call or handler: name, arguments, result   *)
(*   panicked          the panic that ended the program, NoPanic if none   *)
(*   debug_assertions  whether the build compiles debug assertions and     *)
(*                     overflow checks in (the dev profile) or not         *)
(*   calls             the number of calls or handlers run so far          *)
(*   probe             a piece, a number of peers and the positions the    *)
(*                     closure offset of select_piece_peer has yielded     *)
(*   local_peer        the LocalPeer under its handlers and ticks          *)
(*   js_file           one File under set_piece                            *)
(*   wire              the data channel between a sender and its receiver: *)
(*                     the pieces and the acknowledgements in flight and   *)
(*                     how often each piece was put on it                  *)
(*   tracker           the tracker: its State and, for each connection,    *)
(*                     the handler's position and the frames sent to it    *)
(*   effects           the messages the last handler of the LocalPeer sent *)
(*                     and the select_piece_peer calls it made             *)
(***************************************************************************)
VARIABLES sf, last, panicked, debug_assertions, calls, probe, local_peer, effects,
          js_file, wire, tracker, clients

vars == << sf, last, panicked, debug_assertions, calls, probe, local_peer, effects,
          js_file, wire, tracker, clients >>

Bitmaps == [Pieces -> BOOLEAN]
\* the bitmaps a peer may announce: every bitmap of the file's length, and
\* one that is a bit too long
AnnouncedStates == Bitmaps \cup {from_missing(NumPieces + 1)}

\* a call: the method, its index arguments, its bitmap argument if it has
\* one, the result and the value the result carries
Call(op, args, state, ret, val) ==
    [op |-> op, args |-> args, state |-> state, ret |-> ret, val |-> val]

NoProbe == [piece_idx |-> 0, num_peers |-> 0, shift |-> 0, positions |-> << >>]
NoParams == [state_resend_interval |-> 0, piece_resend_interval |-> 0,
             num_pieces_to_be_sent |-> 0, max_buffer_bytes |-> 0]
NoEffects == [outbox |-> << >>, selected |-> << >>]
NoFile == NewFile(<< 0, 0 >>, 32, {}, FALSE)
NoWire == [pieces |-> << >>, acks |-> << >>, sent |-> << >>, lost |-> {}]
NoTracker == [next_peer_id |-> 0, peers_senders |-> << >>, files_senders |-> << >>,
              sockets |-> << >>]

\* a SharedFile right after SharedFile::new, nothing called yet
Fresh(file) ==
    /\ sf = file
    /\ last = Call("new", << >>, NoneOpt, << "Ok" >>, << >>)
    /\ panicked = NoPanic
    /\ debug_assertions \in BOOLEAN
    /\ calls = 0
    /\ local_peer = NewLocalPeer(NoParams)
    /\ effects = NoEffects
    /\ js_file = NoFile
    /\ wire = NoWire
    /\ tracker = NoTracker
    /\ clients = << >>

Init ==
    /\ \E state \in {from_missing(NumPieces), from_complete(NumPieces)} :
           Fresh(NewSharedFile(NumPieces, state))
    /\ probe = NoProbe

\* the owner counts the queues record stay within max_count: the bound that
\* keeps the recorded counts, which the code never caps, finite
CountsWithinBound(f, max_count) ==
    \A i \in DOMAIN f.piece_queues.pieces :
        f.piece_queues.pieces[i].num_possible_owners <= max_count

\* the step of one call with the given outcome, in a run of at most max_calls
\* calls
CommitWithin(max_calls, max_count, out, op, args, state) ==
    /\ panicked = NoPanic
    /\ calls < max_calls
    /\ calls' = calls + 1
    /\ CountsWithinBound(out.sf, max_count)
    /\ UNCHANGED << debug_assertions, probe, local_peer, effects, js_file, wire, tracker, clients >>
    /\ IF out.panic # NoPanic \/ (out.dbg /\ debug_assertions)
       THEN /\ panicked' = (IF out.panic # NoPanic THEN out.panic ELSE "debug")
            /\ sf' = sf
            /\ last' = Call(op, args, state, << "panic" >>, << >>)
       ELSE /\ panicked' = panicked
            /\ sf' = out.sf
            /\ last' = Call(op, args, state, out.ret, out.val)

Commit(out, op, args, state) ==
    CommitWithin(MaxCalls, MaxPeers + MaxDrift, out, op, args, state)

DoAddPeer ==
    \E p \in PeerIds : Commit(AddPeer(sf, p), "add_peer", << p >>, NoneOpt)

DoSetPeerState ==
    \E p \in PeerIds, state \in AnnouncedStates :
        Commit(SetPeerState(sf, p, state), "set_peer_state", << p >>, Some(state))

DoRemovePeer ==
    \E p \in PeerIds : Commit(RemovePeer(sf, p), "remove_peer", << p >>, NoneOpt)

DoAddLocalPiece ==
    \E i \in Pieces :
        Commit(AddLocalPiece(sf, i), "add_local_piece", << i >>, NoneOpt)

DoTakeRecentlyAddedPieces ==
    Commit(TakeRecentlyAddedPieces(sf), "take_recently_added_pieces", << >>, NoneOpt)

DoSelectPiecePeer ==
    \E i \in 0..NumPieces, t \in Times :
        LET out == SelectPiecePeer(sf, i, t) IN
        /\ (out.panic = NoPanic /\ out.ret = << "Ok" >>) => TotalSent(sf) < MaxSent
        /\ Commit(out, "select_piece_peer", << i, t >>, NoneOpt)

DoMarkPeerPieceAsReceivedByRemote ==
    \E p \in PeerIds, i \in 0..NumPieces :
        Commit(MarkPeerPieceAsReceivedByRemote(sf, p, i),
               "mark_peer_piece_as_received_by_remote", << p, i >>, NoneOpt)

DoMarkForResendIfNotSent ==
    \E p \in PeerIds, i \in 0..NumPieces :
        Commit(MarkForResendIfNotSent(sf, p, i),
               "mark_for_resend_if_not_sent", << p, i >>, NoneOpt)

DoMarkPiecesForResendBefore ==
    \E t \in 0..(MaxTime + 1) :
        Commit(MarkPiecesForResendBefore(sf, t),
               "mark_pieces_for_resend_before", << t >>, NoneOpt)

Next ==
    \/ DoAddPeer
    \/ DoSetPeerState
    \/ DoRemovePeer
    \/ DoAddLocalPiece
    \/ DoTakeRecentlyAddedPieces
    \/ DoSelectPiecePeer
    \/ DoMarkPeerPieceAsReceivedByRemote
    \/ DoMarkForResendIfNotSent
    \/ DoMarkPiecesForResendBefore

Spec == Init /\ [][Next]_vars

(***************************************************************************)
(* The closure offset of select_piece_peer as a function of its own:       *)
(* ProbeSpec draws a piece, a number of peers and the shift the loop       *)
(* starts at, and applies the closure to num_peers consecutive shifts.     *)
(***************************************************************************)
ProbeInit ==
    /\ Fresh(NewSharedFile(NumPieces, from_missing(NumPieces)))
    /\ \E piece_idx \in 0..MaxProbePiece, num_peers \in 1..MaxProbePeers :
       \E shift \in 0..(num_peers - 1), usize_bits \in {32, 64} :
           probe = [piece_idx |-> piece_idx, num_peers |-> num_peers,
                    shift |-> shift, usize_bits |-> usize_bits,
                    positions |-> << >>, overflowed |-> FALSE]

ProbeNext ==
    /\ Len(probe.positions) < probe.num_peers
    /\ ~(probe.overflowed /\ debug_assertions)
    /\ LET probed == ProbeOffsetOn(probe.usize_bits, probe.piece_idx, probe.num_peers,
                                   probe.shift + Len(probe.positions))
       IN  probe' = [probe EXCEPT
                        !.positions = IF probed.overflows /\ debug_assertions
                                      THEN @ ELSE Append(@, probed.offset),
                        !.overflowed = probed.overflows]
    /\ UNCHANGED << sf, last, panicked, debug_assertions, calls, local_peer, effects, js_file, wire, tracker, clients >>

ProbeSpec == ProbeInit /\ [][ProbeNext]_vars

\* C7: for N > 1 peers and any piece the N positions probed for N
\* consecutive shifts are pairwise distinct, and for N = 1 the position is
\* that of the single peer.
C7_ProbesArePermutation ==
    /\ \A a, b \in 1..Len(probe.positions) :
           a # b => probe.positions[a] # probe.positions[b]
    /\ \A a \in 1..Len(probe.positions) : probe.positions[a] \in 0..(probe.num_peers - 1)


(***************************************************************************)
(* A seeder: a SharedFile over a complete file of SeedPieces pieces.  The  *)
(* peers 1..SeedPeers announce, in the order of their ids, that they miss  *)
(* the file; queued pieces are selected as the piece-sending step selects  *)
(* them, and peers acknowledge pieces.                                     *)
(***************************************************************************)
SeedCommit(out, op, args) ==
    CommitWithin(MaxSeedCalls, SeedPeers, out, op, args, NoneOpt)

SeedInit ==
    /\ Fresh(NewSharedFile(SeedPieces, from_complete(SeedPieces)))
    /\ probe = NoProbe

SeedJoin ==
    \E p \in 1..SeedPeers :
        /\ p = Cardinality(DOMAIN sf.peers) + 1
        /\ SeedCommit(OnPeerMessage(sf, p, FileMissing), "on_peer_message", << p >>)

SeedSelect ==
    \E i \in PieceRange(SeedPieces) :
        /\ QueueHas(sf.piece_queues, i)
        /\ SeedCommit(SelectPiecePeer(sf, i, 0), "select_piece_peer", << i, 0 >>)

SeedAcknowledge ==
    \E p \in PeersWithState(sf.peers), i \in PieceRange(SeedPieces) :
        /\ PeerState(sf.peers, p).possible[i]
        /\ ~PeerState(sf.peers, p).confirmed[i]
        /\ SeedCommit(OnPeerMessage(sf, p, FilePiecesReceived(<< i >>)),
                      "on_peer_message", << p, i >>)

SeedNext == SeedJoin \/ SeedSelect \/ SeedAcknowledge

SeedSpec == SeedInit /\ [][SeedNext]_vars

\* C6: select_piece_peer on a queued piece fails with PieceIsAlreadyOwned when
\* every peer with state has possible[piece], and succeeds whenever some peer
\* with state has not.
C6_SelectFailsIffAllOwn ==
    [][(last'.op = "select_piece_peer" /\ last'.args[1] < sf.num_pieces) =>
        LET i == last'.args[1]
            all_own == \A p \in PeersWithState(sf.peers) : PeerState(sf.peers, p).possible[i]
        IN  /\ all_own => last'.ret = << "Err", "PieceIsAlreadyOwned" >>
            /\ ~all_own => last'.ret = << "Ok" >>
    ]_vars

(***************************************************************************)
(* A LocalPeer: files are added, the tracker relays offers and requests    *)
(* for offers, data channels open and drain, linked peers send messages    *)
(* in any order, and the Sender ticks.                                     *)
(***************************************************************************)
SenderParams ==
    [state_resend_interval : Times, piece_resend_interval : Times,
     num_pieces_to_be_sent : 1..MaxToSend, max_buffer_bytes : 0..MaxBuffer]

FileBitmaps == [PieceRange(FilePieces) -> BOOLEAN]

\* the messages a remote peer may send about a file
PeerMessages ==
    {FileMissing, FileComplete, FileStateReceived, FileRemoved}
        \cup {FileStateMsg(state) : state \in FileBitmaps \cup {from_missing(FilePieces + 1)}}
        \cup {FilePiece(i) : i \in PieceRange(FilePieces)}
        \cup {FilePiecesReceived(<< i >>) : i \in PieceRange(FilePieces)}

Orders(S) ==
    {order \in [1..Cardinality(S) -> S] :
        \A a, b \in 1..Cardinality(S) : a # b => order[a] # order[b]}

PeerInit ==
    /\ sf = NewSharedFile(NumPieces, from_missing(NumPieces))
    /\ last = Call("new", << >>, NoneOpt, << "Ok" >>, << >>)
    /\ panicked = NoPanic
    /\ debug_assertions \in BOOLEAN
    /\ calls = 0
    /\ probe = NoProbe
    /\ \E params \in SenderParams : local_peer = NewLocalPeer(params)
    /\ effects = NoEffects
    /\ js_file = NoFile
    /\ wire = NoWire
    /\ tracker = NoTracker
    /\ clients = << >>

\* the step of one handler that ended as h
PeerCommit(h, op, args) ==
    /\ panicked = NoPanic
    /\ calls < MaxHandlers
    /\ calls' = calls + 1
    /\ UNCHANGED << sf, debug_assertions, probe, js_file, wire, tracker, clients >>
    /\ effects' = [outbox |-> h.outbox, selected |-> h.selected]
    /\ panicked' = h.panic
    /\ local_peer' = IF h.panic # NoPanic THEN local_peer ELSE h.lp
    /\ last' = Call(op, args, NoneOpt,
                    IF h.panic # NoPanic THEN << "panic" >> ELSE << "Ok" >>, << >>)

Handle == Handling(local_peer, debug_assertions)

LocalAddFile ==
    \E f \in FileIds, state \in FileBitmaps :
        PeerCommit(AddFile(Handle, f, FilePieces, state), "add_file", << f >>)

LocalOnRequestOffer ==
    \E p \in PeerIds, f \in FileIds :
        PeerCommit(OnRequestOffer(Handle, p, f), "on_tracker_message", << p, f >>)

LocalOnPeerOffer ==
    \E p \in PeerIds :
        PeerCommit(OnPeerOffer(Handle, p), "on_tracker_message", << p >>)

\* the data channel of a RemotePeer opens
DataChannelOpen ==
    \E p \in DOMAIN local_peer.peers :
        /\ ~local_peer.peers[p].open
        /\ PeerCommit([Handle EXCEPT !.lp.peers[p].open = TRUE], "on_data_open", << p >>)

\* the data channel of a RemotePeer has transmitted what it had buffered
DataChannelDrained ==
    \E p \in DOMAIN local_peer.peers :
        /\ local_peer.peers[p].buffered > 0
        /\ PeerCommit([Handle EXCEPT !.lp.peers[p].buffered = 0], "drained", << p >>)

LocalOnPeerMessage ==
    \E p \in DOMAIN local_peer.peers, f \in FileIds, message \in PeerMessages :
        /\ local_peer.peers[p].open
        /\ PeerCommit(OnRemoteMessage(Handle, p, f, message), "on_peer_message", << p, f >>)

LocalTick ==
    \E time \in Times, order \in Orders(DOMAIN local_peer.files) :
        /\ time >= local_peer.now
        /\ \E h \in Tick(Handle, time, order) : PeerCommit(h, "tick", << time >>)

PeerNext ==
    \/ LocalAddFile
    \/ LocalOnRequestOffer
    \/ LocalOnPeerOffer
    \/ DataChannelOpen
    \/ DataChannelDrained
    \/ LocalOnPeerMessage
    \/ LocalTick

PeerSpec == PeerInit /\ [][PeerNext]_vars

\* C8: the piece-sending step of a tick never calls select_piece_peer for a
\* piece whose possible_owners equals the number of peers with state of its
\* file, and never emits a FilePiece for such a piece.
C8_FullyOwnedNeverSelected ==
    \A k \in 1..Len(effects.selected) :
        LET call == effects.selected[k]
        IN  call.possible_owners # call.peers_with_state

(***************************************************************************)
(* A File under set_piece: files of one byte, of one, one and a bit and    *)
(* two pieces, of a chunk and a bit and of 4 GiB and a bit, new or         *)
(* complete, on targets with a usize of 32 and of 64 bits; set_piece is    *)
(* called for the first and the last pieces, the indices past the end and  *)
(* the first index whose offset does not fit 32 bits, with data of the     *)
(* lengths around the piece lengths and two different contents.            *)
(***************************************************************************)
FileLens ==
    {<< 0, 1 >>, << 1, 0 >>, << 1, 1 >>, << 2, 0 >>,
     << NUM_PIECES_IN_CHUNK, 5 >>, << 2 ^ 22 + 1, 7 >>}
FileIndices(len) ==
    {i \in {0, 1, FileNumPieces(len) - 2, FileNumPieces(len) - 1,
            FileNumPieces(len), FileNumPieces(len) + 1, 2 ^ 22} : i >= 0}
DataLens(len) ==
    {0, 1, len[2], FILE_PIECE_SIZE - 1, FILE_PIECE_SIZE, FILE_PIECE_SIZE + 1}
Contents == {1, 2}

FileInit ==
    /\ sf = NewSharedFile(NumPieces, from_missing(NumPieces))
    /\ last = Call("new", << >>, NoneOpt, << "Ok" >>, << >>)
    /\ panicked = NoPanic
    /\ debug_assertions \in BOOLEAN
    /\ calls = 0
    /\ probe = NoProbe
    /\ local_peer = NewLocalPeer(NoParams)
    /\ effects = NoEffects
    /\ \E len \in FileLens, usize_bits \in {32, 64}, complete \in BOOLEAN :
           js_file = NewFile(len, usize_bits, FileIndices(len), complete)
    /\ wire = NoWire
    /\ tracker = NoTracker
    /\ clients = << >>

FileSetPiece ==
    \E piece_idx \in FileIndices(js_file.len), len \in DataLens(js_file.len),
       bytes \in Contents :
        LET Done(out) ==
                IF out.panic # NoPanic \/ (out.dbg /\ debug_assertions)
                THEN /\ panicked' = (IF out.panic # NoPanic THEN out.panic ELSE "overflow")
                     /\ js_file' = js_file
                     /\ last' = Call("set_piece", << piece_idx, len, bytes >>, NoneOpt,
                                     << "panic" >>, << >>)
                ELSE /\ panicked' = panicked
                     /\ js_file' = out.sf
                     /\ last' = Call("set_piece", << piece_idx, len, bytes >>, NoneOpt,
                                     out.ret, out.val)
        IN  /\ panicked = NoPanic
            /\ Done(set_piece(js_file, piece_idx, [len |-> len, bytes |-> bytes]))
            /\ UNCHANGED << sf, debug_assertions, calls, probe, local_peer, effects,
                            wire, tracker, clients >>

FileSpec == FileInit /\ [][FileSetPiece]_vars

\* the length of piece i < N of a file of length len with N pieces:
\* len - FILE_PIECE_SIZE * (N - 1) for the last piece, FILE_PIECE_SIZE before
TrueLen(len, i) ==
    IF i = FileNumPieces(len) - 1 /\ len[2] > 0 THEN len[2] ELSE FILE_PIECE_SIZE

\* C13: set_piece with bytes of the piece's length for a piece that is
\* present returns AlreadySet and leaves the stored bytes of the piece as
\* they are, whatever bytes it is given.
C13_WritesOnlyOnJustSet ==
    [][(/\ last'.op = "set_piece"
        /\ last'.args[1] \in js_file.present
        /\ last'.args[2] = TrueLen(js_file.len, last'.args[1])) =>
        /\ last'.ret = << "Ok", "AlreadySet" >>
        /\ get_piece(js_file', last'.args[1]) = get_piece(js_file, last'.args[1])
    ]_vars

\* C14: set_piece for an index i >= num_pieces fails with the
\* index-out-of-range error for every length of the data and changes neither
\* the stored bytes nor the mask.
C14_OutOfRangeIndexFails ==
    [][(last'.op = "set_piece" /\ last'.args[1] >= FileNumPieces(js_file.len)) =>
        /\ last'.ret = << "Err", "PieceIndexOutOfRange" >>
        /\ js_file' = js_file
    ]_vars

\* C15: for a file of length len with N pieces set_piece accepts for the last
\* piece exactly len - FILE_PIECE_SIZE * (N - 1) bytes and rejects
\* FILE_PIECE_SIZE bytes, and for every piece before it exactly
\* FILE_PIECE_SIZE bytes; every other length fails with
\* InvalidPieceLen{expected}, expected being the accepted length, and leaves
\* the file as it is.
C15_PieceLengths ==
    [][(last'.op = "set_piece" /\ last'.args[1] < FileNumPieces(js_file.len)) =>
        LET i == last'.args[1]
            N == FileNumPieces(js_file.len)
            accepted == TrueLen(js_file.len, i)
        IN  /\ last'.args[2] = accepted => last'.ret[1] = "Ok"
            /\ last'.args[2] # accepted =>
                   /\ last'.ret = << "Err", "InvalidPieceLen" >>
                   /\ last'.val = << accepted >>
                   /\ js_file' = js_file
            /\ (i = N - 1 /\ last'.args[2] = FILE_PIECE_SIZE) => last'.ret[1] = "Err"
    ]_vars

(***************************************************************************)
(* FilePiecesQueues on its own: the queues of a SharedFile of QueuePieces  *)
(* pieces under any sequence of insertions, with any owner counts up to    *)
(* MaxKey, and removals.                                                   *)
(***************************************************************************)
QueueInit ==
    /\ Fresh(NewSharedFile(QueuePieces, from_complete(QueuePieces)))
    /\ probe = NoProbe

QueueCommit(r, op, args, ret, val) ==
    /\ sf' = [sf EXCEPT !.piece_queues = r.q]
    /\ last' = Call(op, args, NoneOpt, IF r.ok THEN << "Ok" >> ELSE ret,
                    IF r.ok THEN val ELSE << >>)
    /\ UNCHANGED << panicked, debug_assertions, calls, probe, local_peer, effects, js_file, wire, tracker, clients >>

QueueInsert ==
    \E i \in PieceRange(QueuePieces), k \in 0..MaxKey, c \in 0..MaxKey, shift \in 0..1 :
        /\ c <= k
        /\ QueueCommit(QueueAdd(sf.piece_queues, i,
                                [peer_shift |-> shift, num_confirmed_owners |-> c,
                                 num_possible_owners |-> k]),
                       "insert", << i, k, c, shift >>, << "Err", "PieceIsAlreadyAdded" >>,
                       << >>)

QueueTake ==
    \E i \in PieceRange(QueuePieces) :
        QueueCommit(QueueRemove(sf.piece_queues, i), "remove",
                    << i, sf.piece_queues.pieces[i].num_possible_owners >>,
                    << "Err", "PieceIsNotAdded" >>,
                    << QueueRemove(sf.piece_queues, i).data >>)

QueueNext == QueueInsert \/ QueueTake

QueueSpec == QueueInit /\ [][QueueNext]_vars

\* the keys of the buckets that hold a piece
NonEmptyKeys(q) == {k \in 0..(Len(q.queues) - 1) : q.queues[k + 1] # << >>}

\* C16: next_queue() is None when no piece is queued; otherwise it returns
\* the smallest key among the non-empty buckets together with exactly the
\* pieces queued under that key.
C16_NextQueueIsMinimum ==
    LET q == sf.piece_queues
        queued == {i \in DOMAIN q.pieces : QueueHas(q, i)}
        next == NextQueue(q)
    IN  IF queued = {} THEN next = NoneOpt
        ELSE /\ IsSome(next)
             /\ Unwrap(next).key \in NonEmptyKeys(q)
             /\ \A k \in NonEmptyKeys(q) : Unwrap(next).key <= k
             /\ Unwrap(next).pieces = q.queues[Unwrap(next).key + 1]
             /\ {Unwrap(next).pieces[n] : n \in 1..Len(Unwrap(next).pieces)}
                    = {i \in queued : q.pieces[i].num_possible_owners = Unwrap(next).key}
             /\ Len(Unwrap(next).pieces)
                    = Cardinality({i \in queued :
                                      q.pieces[i].num_possible_owners = Unwrap(next).key})

\* a removal has just emptied the bucket with the smallest key while pieces
\* are queued under a larger key
C16_Witness ==
    /\ last.op = "remove" /\ last.ret = << "Ok" >>
    /\ IsSome(NextQueue(sf.piece_queues))
    /\ Unwrap(NextQueue(sf.piece_queues)).key > last.args[2]
    /\ Len(Unwrap(NextQueue(sf.piece_queues)).pieces) = 2

(***************************************************************************)
(* The state-broadcast step on its own: a LocalPeer has added one file, of *)
(* no piece or of StatePieces pieces in any state, and the tracker has     *)
(* relayed the requests for offers of some peers; then data channels open  *)
(* and close, peers acknowledge the state, and the step runs at the times  *)
(* of the ticks.                                                           *)
(***************************************************************************)
RECURSIVE RequestOffers(_, _, _)
RequestOffers(h, ps, f) ==
    IF ps = << >> THEN h
    ELSE RequestOffers(OnRequestOffer(h, ps[1], f), Tail(ps), f)

StateInit ==
    /\ sf = NewSharedFile(NumPieces, from_missing(NumPieces))
    /\ last = Call("new", << >>, NoneOpt, << "Ok" >>, << >>)
    /\ panicked = NoPanic
    /\ debug_assertions \in BOOLEAN
    /\ calls = 0
    /\ probe = NoProbe
    /\ \E params \in SenderParams, num_pieces \in {0, StatePieces}, ps \in SUBSET PeerIds :
           \E state \in [PieceRange(num_pieces) -> BOOLEAN] :
               local_peer = RequestOffers(
                                AddFile(Handling(NewLocalPeer(params), debug_assertions),
                                        1, num_pieces, state),
                                Ascending(ps), 1).lp
    /\ effects = NoEffects
    /\ js_file = NoFile
    /\ wire = NoWire
    /\ tracker = NoTracker
    /\ clients = << >>

\* the state-broadcast step of the tick at the given time
StateBroadcast ==
    \E time \in Times :
        /\ time >= local_peer.now
        /\ PeerCommit(SendStateToRemotePeers(
                          [Handle EXCEPT !.lp.now = time],
                          SaturatingSub(time, local_peer.params.state_resend_interval),
                          time),
                      "send_state_to_remote_peers", << time >>)

\* the data channel of a RemotePeer leaves the open state
DataChannelClosed ==
    \E p \in DOMAIN local_peer.peers :
        /\ local_peer.peers[p].open
        /\ PeerCommit([Handle EXCEPT !.lp.peers[p].open = FALSE], "on_data_close", << p >>)

\* a peer acknowledges the state of the file
StateAcknowledged ==
    \E p \in DOMAIN local_peer.peers :
        /\ local_peer.peers[p].open
        /\ PeerCommit(OnRemoteMessage(Handle, p, 1, FileStateReceived),
                      "on_peer_message", << p, 1 >>)

StateNext ==
    \/ StateBroadcast
    \/ DataChannelOpen
    \/ DataChannelClosed
    \/ StateAcknowledged

StateSpec == StateInit /\ [][StateNext]_vars

\* the messages of the outbox about file f for peer p
MessagesTo(outbox, f, p) ==
    {k \in 1..Len(outbox) : outbox[k].file = f /\ outbox[k].to = p}

\* C18: the state-broadcast step sends the state of file F to peer p exactly
\* when p's status is NotSent or Sent(t) with t <= now - state_resend_interval
\* and p's link is open, and the status is then Sent(now); otherwise nothing
\* is sent to p and the status stays, Received and a link not open included.
\* The message is FileMissing for an all-zero bitmap, FileComplete for an
\* all-one bitmap and FileState with the bitmap for a mixed one.
C18_StateBroadcast ==
    [][(last'.op = "send_state_to_remote_peers" /\ panicked' = NoPanic) =>
        LET now == last'.args[1]
            resend_before == SaturatingSub(now, local_peer.params.state_resend_interval)
        IN  \A f \in DOMAIN local_peer.files :
                LET bitmap == local_peer.files[f].file_state
                    kind == IF \A i \in DOMAIN bitmap : ~bitmap[i] THEN "FileMissing"
                            ELSE IF \A i \in DOMAIN bitmap : bitmap[i] THEN "FileComplete"
                            ELSE "FileState"
                IN  \A p \in DOMAIN local_peer.files[f].peers :
                        LET status == local_peer.files[f].peers[p].local_state_status
                            after == local_peer'.files[f].peers[p].local_state_status
                            due == \/ status = NotSent
                                   \/ \E t \in Times : status = Sent(t) /\ t <= resend_before
                            messages == MessagesTo(effects'.outbox, f, p)
                        IN  IF due /\ local_peer.peers[p].open
                            THEN /\ Cardinality(messages) = 1
                                 /\ \A k \in messages :
                                        /\ effects'.outbox[k].kind = kind
                                        /\ kind = "FileState" =>
                                               effects'.outbox[k].body = bitmap
                                 /\ after = Sent(now)
                            ELSE /\ messages = {}
                                 /\ after = status
    ]_vars

\* the step after time 0 has sent a mixed bitmap to a peer whose status was
\* due and nothing to a peer whose status is Received
C18_Witness ==
    /\ last.op = "send_state_to_remote_peers" /\ panicked = NoPanic
    /\ local_peer.now > 0
    /\ \E k \in 1..Len(effects.outbox) : effects.outbox[k].kind = "FileState"
    /\ \E p, q \in DOMAIN local_peer.files[1].peers :
           /\ local_peer.files[1].peers[p].local_state_status = Sent(local_peer.now)
           /\ MessagesTo(effects.outbox, 1, p) # {}
           /\ local_peer.files[1].peers[q].local_state_status = Received
           /\ MessagesTo(effects.outbox, 1, q) = {}

(***************************************************************************)
(* The piece-sending step in a swarm that is set up: the LocalPeer has     *)
(* added every file, each complete or missing, the tracker has relayed the *)
(* requests for offers of every peer for every file, every data channel    *)
(* is open, and some peers have announced that they miss some files.  Then *)
(* the Sender ticks, data channels drain and peers send messages.          *)
(***************************************************************************)
\* add_file for the files fs, each complete or missing as complete tells
RECURSIVE AddFiles(_, _, _)
AddFiles(h, fs, complete) ==
    IF fs = << >> THEN h
    ELSE AddFiles(RequestOffers(AddFile(h, fs[1], FilePieces,
                                        IF fs[1] \in complete
                                        THEN from_complete(FilePieces)
                                        ELSE from_missing(FilePieces)),
                                Ascending(PeerIds), fs[1]),
                  Tail(fs), complete)

\* the data channels of the peers ps open
RECURSIVE OpenAll(_, _)
OpenAll(h, ps) ==
    IF ps = << >> THEN h
    ELSE OpenAll([h EXCEPT !.lp.peers[ps[1]].open = TRUE], Tail(ps))

\* the peers announce the files they miss, given as pairs << peer, file >>
RECURSIVE AnnounceMissing(_, _)
AnnounceMissing(h, missing) ==
    IF missing = << >> THEN h
    ELSE AnnounceMissing(OnRemoteMessage(h, missing[1][1], missing[1][2], FileMissing),
                         Tail(missing))

RECURSIVE PairsInOrder(_)
PairsInOrder(S) ==
    IF S = {} THEN << >>
    ELSE LET least == CHOOSE x \in S :
                          \A y \in S : x[1] < y[1] \/ (x[1] = y[1] /\ x[2] <= y[2])
         IN  << least >> \o PairsInOrder(S \ {least})

SendInit ==
    /\ sf = NewSharedFile(NumPieces, from_missing(NumPieces))
    /\ last = Call("new", << >>, NoneOpt, << "Ok" >>, << >>)
    /\ panicked = NoPanic
    /\ debug_assertions \in BOOLEAN
    /\ calls = MaxHandlers - MaxSendSteps
    /\ probe = NoProbe
    /\ \E params \in SenderParams, complete \in SUBSET FileIds,
          missing \in SUBSET (PeerIds \X FileIds) :
           local_peer = AnnounceMissing(
                            OpenAll(AddFiles(Handling(NewLocalPeer(params),
                                                      debug_assertions),
                                             Ascending(FileIds), complete),
                                    Ascending(PeerIds)),
                            PairsInOrder(missing)).lp
    /\ effects = NoEffects
    /\ js_file = NoFile
    /\ wire = NoWire
    /\ tracker = NoTracker
    /\ clients = << >>

\* a peer sends a piece of a file or acknowledges one
LocalOnPieceMessage ==
    \E p \in DOMAIN local_peer.peers, f \in FileIds, i \in PieceRange(FilePieces) :
        \E message \in {FilePiece(i), FilePiecesReceived(<< i >>)} :
            /\ local_peer.peers[p].open
            /\ PeerCommit(OnRemoteMessage(Handle, p, f, message),
                          "on_peer_message", << p, f >>)

SendNext ==
    \/ LocalTick
    \/ DataChannelDrained
    \/ LocalOnPieceMessage

SendSpec == SendInit /\ [][SendNext]_vars

(***************************************************************************)
(* One sender and one receiver.  The sender is a LocalPeer that has added  *)
(* a complete file of ReplicaPieces pieces; the receiver, its peer 1, has  *)
(* an open data channel and has announced FileMissing.  The receiver is    *)
(* the SharedFile sf of the same file, all missing, with the sender as its *)
(* peer 1.  The sender ticks; the data channel delivers the FilePiece      *)
(* messages in order; the receiver's tick acknowledges the pieces it has   *)
(* added; the acknowledgements are delivered in order.  The ceiling of the *)
(* buffer admits every piece of the file.                                  *)
(***************************************************************************)
ReplicaParams(max_buffer_bytes) ==
    {params \in [state_resend_interval : Times, piece_resend_interval : Times,
                 num_pieces_to_be_sent : 1..MaxToSend,
                 max_buffer_bytes : {max_buffer_bytes}] : TRUE}

\* the pair with the ceiling of the buffer of the link at the given number of
\* messages
ReplicaStart(max_buffer_bytes) ==
    /\ sf = NewSharedFile(ReplicaPieces, from_missing(ReplicaPieces))
    /\ last = Call("new", << >>, NoneOpt, << "Ok" >>, << >>)
    /\ panicked = NoPanic
    /\ debug_assertions \in BOOLEAN
    /\ calls = 0
    /\ probe = NoProbe
    /\ \E params \in ReplicaParams(max_buffer_bytes) :
           local_peer = AnnounceMissing(
                            OpenAll(RequestOffers(
                                        AddFile(Handling(NewLocalPeer(params),
                                                         debug_assertions),
                                                1, ReplicaPieces,
                                                from_complete(ReplicaPieces)),
                                        << 1 >>, 1),
                                    << 1 >>),
                            << << 1, 1 >> >>).lp
    /\ effects = NoEffects
    /\ js_file = NoFile
    /\ wire = NoWire
    /\ tracker = NoTracker
    /\ clients = << >>

ReplicaInit == ReplicaStart(ReplicaPieces)

\* the pieces of the FilePiece messages of an outbox, in order
RECURSIVE PiecesOf(_)
PiecesOf(outbox) ==
    IF outbox = << >> THEN << >>
    ELSE (IF Head(outbox).kind = "FilePiece" THEN << Head(outbox).body[1] >> ELSE << >>)
             \o PiecesOf(Tail(outbox))

\* the sends of the pieces at the given time
Stamped(pieces, time) == [k \in 1..Len(pieces) |-> << pieces[k], time >>]

\* every piece put on the wire before the given time is acknowledged
AcknowledgedBefore(time) ==
    \A k \in 1..Len(wire.sent) :
        wire.sent[k][2] < time =>
            PeerState(local_peer.files[1].peers, 1).confirmed[wire.sent[k][1]]

\* a handler of the sender ended as h, the wire and the receiver as given
ReplicaCommit(h, op, args, new_wire, receiver) ==
    /\ panicked = NoPanic
    /\ UNCHANGED << debug_assertions, calls, probe, js_file, tracker, clients >>
    /\ effects' = [outbox |-> h.outbox, selected |-> h.selected]
    /\ panicked' = IF h.panic # NoPanic THEN h.panic ELSE receiver.panic
    /\ local_peer' = IF h.panic # NoPanic THEN local_peer ELSE h.lp
    /\ wire' = IF h.panic # NoPanic THEN wire ELSE new_wire
    /\ sf' = IF receiver.panic # NoPanic THEN sf ELSE receiver.sf
    /\ last' = Call(op, args, NoneOpt,
                    IF h.panic # NoPanic \/ receiver.panic # NoPanic
                    THEN << "panic" >> ELSE << "Ok" >>, << >>)

\* the tick of the sender at the given time; in_time tells whether the time
\* passes a piece_resend_interval only for sends that are acknowledged
SenderTick(in_time) ==
    \E time \in Times :
        /\ time >= local_peer.now
        /\ in_time =>
               AcknowledgedBefore(SaturatingSub(time,
                                                local_peer.params.piece_resend_interval))
        /\ \E h \in Tick(Handle, time, << 1 >>) :
               ReplicaCommit(h, "tick", << time >>,
                             [wire EXCEPT !.pieces = @ \o PiecesOf(h.outbox),
                                          !.sent = @ \o Stamped(PiecesOf(h.outbox), time),
                                          !.lost =
                                              {send \in @ :
                                                   \A k \in 1..Len(PiecesOf(h.outbox)) :
                                                       PiecesOf(h.outbox)[k] # send[1]}],
                             Return(sf, << "Ok" >>))

\* the data channel delivers a FilePiece to the receiver
DeliverPiece ==
    /\ wire.pieces # << >>
    /\ ReplicaCommit([Handle EXCEPT !.lp.peers[1].buffered = @ - 1],
                     "on_peer_message", << 1, 1 >>,
                     [wire EXCEPT !.pieces = Tail(@)],
                     OnPeerMessage(sf, 1, FilePiece(Head(wire.pieces))))

\* the tick of the receiver acknowledges the pieces it has added
ReceiverTick ==
    /\ sf.recently_added_pieces # << >>
    /\ ReplicaCommit(Handle, "send_recently_received_to_remote_peers", << >>,
                     [wire EXCEPT !.acks = Append(@, sf.recently_added_pieces)],
                     TakeRecentlyAddedPieces(sf))

\* the data channel delivers a FilePiecesReceived to the sender
DeliverAck ==
    /\ wire.acks # << >>
    /\ ReplicaCommit(OnRemoteMessage(Handle, 1, 1, FilePiecesReceived(Head(wire.acks))),
                     "on_peer_message", << 1, 1 >>,
                     [wire EXCEPT !.acks = Tail(@)],
                     Return(sf, << "Ok" >>))

ReplicaNext ==
    \/ SenderTick(TRUE)
    \/ DeliverPiece
    \/ ReceiverTick
    \/ DeliverAck

\* ENABLED << SenderTick(in_time) >>_vars as a state predicate: some tick
\* allowed now changes the state
SenderTickEnabled(in_time) ==
    /\ panicked = NoPanic
    /\ \E time \in Times :
           /\ time >= local_peer.now
           /\ in_time =>
                  AcknowledgedBefore(SaturatingSub(time,
                                                   local_peer.params.piece_resend_interval))
           /\ \E h \in Tick(Handle, time, << 1 >>) :
                  \/ h.panic # NoPanic
                  \/ h.lp # local_peer
                  \/ PiecesOf(h.outbox) # << >>
                  \/ effects # [outbox |-> h.outbox, selected |-> h.selected]
                  \/ last # Call("tick", << time >>, NoneOpt, << "Ok" >>, << >>)

\* ENABLED << DeliverAck >>_vars as a state predicate: the step takes the
\* acknowledgement off the wire
DeliverAckEnabled == panicked = NoPanic /\ wire.acks # << >>

\* The timer of the sender keeps firing, the receiver keeps ticking and the
\* data channel delivers what it holds: weak fairness of each step, for the
\* two handlers of the sender with ENABLED written as the state predicate
\* above.
ReplicaSpec ==
    /\ ReplicaInit /\ [][ReplicaNext]_vars
    /\ ([]<>(~SenderTickEnabled(TRUE)) \/ []<><<SenderTick(TRUE)>>_vars)
    /\ WF_vars(DeliverPiece)
    /\ WF_vars(ReceiverTick)
    /\ ([]<>(~DeliverAckEnabled) \/ []<><<DeliverAck>>_vars)

(***************************************************************************)
(* The same pair over a transport that loses FilePiece messages: a message *)
(* leaves the buffer of the data channel and never arrives.  wire.lost     *)
(* keeps the lost sends whose piece has not been sent since.  Time is      *)
(* modelled up to MaxTime, so a send is lost only if its                   *)
(* piece_resend_interval can still elapse.  The sender ticks at any time   *)
(* from now on, whatever is acknowledged.  The buffer of the link holds    *)
(* every message the sender can send up to MaxTime, so that no send fails  *)
(* with BufferIsFilled.                                                    *)
(***************************************************************************)
LossyInit == ReplicaStart((MaxTime + 1) * ReplicaPieces)

\* the send of the FilePiece at the head of the wire
HeadSend == wire.sent[Len(wire.sent) - Len(wire.pieces) + 1]

\* the piece at the head of the wire is on the wire a second time
HeadResent == \E k \in 2..Len(wire.pieces) : wire.pieces[k] = Head(wire.pieces)

\* the transport loses the FilePiece at the head of the wire
DropPiece ==
    /\ wire.pieces # << >>
    /\ HeadSend[2] + local_peer.params.piece_resend_interval < MaxTime
    /\ ReplicaCommit([Handle EXCEPT !.lp.peers[1].buffered = @ - 1],
                     "drop", << HeadSend[1] >>,
                     [wire EXCEPT !.pieces = Tail(@),
                                  !.lost = IF HeadResent THEN @ ELSE @ \cup {HeadSend}],
                     Return(sf, << "Ok" >>))

LossyNext ==
    \/ SenderTick(FALSE)
    \/ DeliverPiece
    \/ DropPiece
    \/ ReceiverTick
    \/ DeliverAck

\* The fairness of ReplicaSpec; the loss of a message is never required.
LossySpec ==
    /\ LossyInit /\ [][LossyNext]_vars
    /\ ([]<>(~SenderTickEnabled(FALSE)) \/ []<><<SenderTick(FALSE)>>_vars)
    /\ WF_vars(DeliverPiece)
    /\ WF_vars(ReceiverTick)
    /\ ([]<>(~DeliverAckEnabled) \/ []<><<DeliverAck>>_vars)

(***************************************************************************)
(* The same pair over a transport that delivers every FilePiece and loses  *)
(* FilePiecesReceived messages.  An acknowledgement is lost only while the *)
(* piece_resend_interval of the sends it answers can still elapse, so that *)
(* the sender sends each of its pieces once more after the loss.  A        *)
(* message that is on the wire again and again is delivered in the end:    *)
(* strong fairness of the two deliveries.                                  *)
(***************************************************************************)
\* the time piece_idx was last put on the wire
RECURSIVE LastSent(_, _)
LastSent(sent, piece_idx) ==
    IF sent = << >> THEN 0
    ELSE IF sent[Len(sent)][1] = piece_idx THEN sent[Len(sent)][2]
    ELSE LastSent(SubSeq(sent, 1, Len(sent) - 1), piece_idx)

\* the transport loses the FilePiecesReceived at the head of the wire
DropAck ==
    /\ wire.acks # << >>
    /\ \A k \in 1..Len(Head(wire.acks)) :
           LastSent(wire.sent, Head(wire.acks)[k]) + local_peer.params.piece_resend_interval
               < MaxTime
    /\ ReplicaCommit(Handle, "drop_ack", Head(wire.acks),
                     [wire EXCEPT !.acks = Tail(@)],
                     Return(sf, << "Ok" >>))

AckLossNext ==
    \/ SenderTick(FALSE)
    \/ DeliverPiece
    \/ ReceiverTick
    \/ DeliverAck
    \/ DropAck

DeliverPieceEnabled == panicked = NoPanic /\ wire.pieces # << >>

AckLossSpec ==
    /\ LossyInit /\ [][AckLossNext]_vars
    /\ ([]<>(~SenderTickEnabled(FALSE)) \/ []<><<SenderTick(FALSE)>>_vars)
    /\ (<>[](~DeliverPieceEnabled) \/ []<><<DeliverPiece>>_vars)
    /\ WF_vars(ReceiverTick)
    /\ (<>[](~DeliverAckEnabled) \/ []<><<DeliverAck>>_vars)

(***************************************************************************)
(* The registry of the LocalPeer alone: files maps a fingerprint to a Weak *)
(* reference of the SharedFile, which is Dropped once the owner of the     *)
(* SharedFile has let go of it and stays in the registry until             *)
(* clear_removed_files runs.                                               *)
(***************************************************************************)
Dropped == [dropped |-> TRUE]

\* a call on the registry ended as h with the given result
RegistryCommit(h, op, args, ret) ==
    /\ UNCHANGED << sf, debug_assertions, calls, probe, js_file, wire, tracker, clients, panicked >>
    /\ effects' = [outbox |-> h.outbox, selected |-> h.selected]
    /\ local_peer' = h.lp
    /\ last' = Call(op, args, NoneOpt, ret, << >>)

RegistryAddFile ==
    \E f \in FileIds, state \in FileBitmaps :
        RegistryCommit(AddFile(Handle, f, FilePieces, state), "add_file", << f >>,
                       AddFileResult(Handle, f))

\* the owner drops the SharedFile that add_file returned
DropSharedFile ==
    \E f \in DOMAIN local_peer.files :
        /\ local_peer.files[f] # Dropped
        /\ RegistryCommit([Handle EXCEPT !.lp.files[f] = Dropped], "drop", << f >>,
                          << "Ok" >>)

\* LocalPeer::clear_removed_files
ClearRemovedFiles(h) ==
    [h EXCEPT !.lp.files = [f \in {g \in DOMAIN @ : @[g] # Dropped} |-> @[f]]]

RegistryClear ==
    RegistryCommit(ClearRemovedFiles(Handle), "clear_removed_files", << >>, << "Ok" >>)

RegistryNext ==
    \/ RegistryAddFile
    \/ DropSharedFile
    \/ RegistryClear

RegistrySpec == PeerInit /\ [][RegistryNext]_vars

(***************************************************************************)
(* The tracker: connections are accepted, each runs Socket::run in a task  *)
(* of its own, and the tasks share one State.  A task may be suspended at  *)
(* each await, so new_peer and the send of PeerIdAssigned are two steps;   *)
(* the handling of one received message is one step.  tracker.sockets[c]   *)
(* is connection c: where its task is, the id new_peer gave it and the     *)
(* frames its SocketSender has sent.                                       *)
(***************************************************************************)
\* the peer ids a client may address: those the tracker gives out
AddressedIds == 0 .. MaxSockets - 1
RelayKinds == {"SendOffer", "SendAnswer", "SendIceCandidate", "AllIceCandidatesSent"}

NewSocket == [pc |-> "opened", peer_id |-> NoneOpt, frames |-> << >>]

\* TrackerPeerMessage
PeerIdAssigned(peer_id) == [message |-> "PeerIdAssigned", peer_id |-> peer_id, file_sha256 |-> 0]
RequestOffer(peer_id, file_sha256) == [message |-> "RequestOffer", peer_id |-> peer_id, file_sha256 |-> file_sha256]
Relayed(kind, peer_id) == [message |-> CASE kind = "SendOffer" -> "PeerOffer" [] kind = "SendAnswer" -> "PeerAnswer" [] kind = "SendIceCandidate" -> "PeerIceCandidate" [] OTHER -> "PeerAllIceCandidatesSent", peer_id |-> peer_id, file_sha256 |-> 0]

\* the Socket of connection c is alive until its run returns or panics
SocketAlive(t, c) == t.sockets[c].pc \in {"opened", "registered", "running"}

\* State::get_peer_sender: the connection whose sender is registered as
\* peer_id if its Weak still upgrades, nothing otherwise
GetPeerSender(t, peer_id) ==
    IF peer_id \in DOMAIN t.peers_senders /\ SocketAlive(t, t.peers_senders[peer_id])
    THEN Some(t.peers_senders[peer_id])
    ELSE NoneOpt

\* SocketSender::send on connection c
SocketSend(t, c, message) ==
    [t EXCEPT !.sockets[c].frames = Append(@, message)]

\* Socket::send_to_peer
SendToPeer(t, peer_id, message) ==
    IF IsSome(GetPeerSender(t, peer_id))
    THEN SocketSend(t, Unwrap(GetPeerSender(t, peer_id)), message)
    ELSE t

\* State::new_peer on the sender of connection c: the tracker after the
\* insert, the id, and whether the assert holds (next_peer_id is an
\* AtomicU32 and wraps after 2^32 connections, far above MaxSockets)
StateNewPeer(t, c) ==
    [tracker |-> [t EXCEPT !.next_peer_id = t.next_peer_id + 1,
                           !.peers_senders = Put(@, t.next_peer_id, c)],
     peer_id |-> t.next_peer_id,
     ok |-> t.next_peer_id \notin DOMAIN t.peers_senders]

\* the peers of a file in State::files_senders
FilePeers(t, file_sha256) ==
    IF file_sha256 \in DOMAIN t.files_senders THEN t.files_senders[file_sha256] ELSE {}

\* State::add_file_peer_and_get_file_peer_list
AddFilePeerAndGetFilePeerList(t, file_sha256, peer_id) ==
    [tracker |-> [t EXCEPT !.files_senders = Put(@, file_sha256, FilePeers(t, file_sha256) \cup {peer_id})],
     ret |-> IF peer_id \in FilePeers(t, file_sha256)
             THEN << "Err", "FileIsAlreadyAdded" >>
             ELSE << "Ok", FilePeers(t, file_sha256) \cup {peer_id} >>]

\* the loop of the RequestOffers arm over the peers left to be told
RECURSIVE SendRequestOffers(_, _, _, _)
SendRequestOffers(t, others, peer_id, file_sha256) ==
    IF others = {} THEN t
    ELSE LET other_peer_id == CHOOSE o \in others : \A x \in others : o <= x
         IN SendRequestOffers(SendToPeer(t, other_peer_id, RequestOffer(peer_id, file_sha256)),
                              others \ {other_peer_id}, peer_id, file_sha256)

\* Socket::run, PeerTrackerMessage::RequestOffers received on connection c
OnRequestOffersMessage(t, c, file_sha256) ==
    LET peer_id == Unwrap(t.sockets[c].peer_id)
        added == AddFilePeerAndGetFilePeerList(t, file_sha256, peer_id)
    IN IF added.ret[1] = "Err"
       THEN [added.tracker EXCEPT !.sockets[c].pc = "panicked"]
       ELSE SendRequestOffers(added.tracker, added.ret[2] \ {peer_id}, peer_id, file_sha256)

\* Socket::run, one of the four relayed messages received on connection c
Relay(t, c, kind, other_peer_id) ==
    SendToPeer(t, other_peer_id, Relayed(kind, Unwrap(t.sockets[c].peer_id)))

\* the signaling frames relayed so far
RECURSIVE RelayedFrames(_, _)
RelayedFrames(t, c) ==
    IF c = 0 THEN 0
    ELSE RelayedFrames(t, c - 1)
         + Cardinality({k \in DOMAIN t.sockets[c].frames :
                           t.sockets[c].frames[k].message \notin {"PeerIdAssigned", "RequestOffer"}})

\* a step of the tracker that received so many messages in it
TrackerCommit(t, op, args, received) ==
    /\ calls + received <= MaxMessages
    /\ tracker' = t
    /\ last' = Call(op, args, NoneOpt, << "Ok" >>, << >>)
    /\ calls' = calls + received
    /\ UNCHANGED << sf, panicked, debug_assertions, probe, local_peer, effects,
                    js_file, wire, clients >>

\* Tracker::run accepts a connection and spawns its Socket::run
Accept ==
    /\ Len(tracker.sockets) < MaxSockets
    /\ TrackerCommit([tracker EXCEPT !.sockets = Append(@, NewSocket)],
                     "accept", << Len(tracker.sockets) + 1 >>, 0)

\* Socket::run up to the await of the send: new_peer
RunNewPeer ==
    \E c \in DOMAIN tracker.sockets :
        /\ tracker.sockets[c].pc = "opened"
        /\ LET new == StateNewPeer(tracker, c)
           IN TrackerCommit([new.tracker EXCEPT
                                 !.sockets[c].pc = IF new.ok THEN "registered" ELSE "panicked",
                                 !.sockets[c].peer_id = IF new.ok THEN Some(new.peer_id) ELSE NoneOpt],
                            "new_peer", << c >>, 0)

\* Socket::run: the send of PeerIdAssigned, then the receive loop
RunAssign ==
    \E c \in DOMAIN tracker.sockets :
        /\ tracker.sockets[c].pc = "registered"
        /\ TrackerCommit([SocketSend(tracker, c, PeerIdAssigned(Unwrap(tracker.sockets[c].peer_id)))
                             EXCEPT !.sockets[c].pc = "running"],
                         "assign", << c >>, 0)

OnRequestOffers ==
    \E c \in DOMAIN tracker.sockets, file_sha256 \in FileIds :
        /\ tracker.sockets[c].pc = "running"
        /\ TrackerCommit(OnRequestOffersMessage(tracker, c, file_sha256),
                         "RequestOffers", << c, file_sha256 >>, 1)

OnRelay ==
    \E c \in DOMAIN tracker.sockets, kind \in RelayKinds, other_peer_id \in AddressedIds :
        /\ tracker.sockets[c].pc = "running"
        /\ RelayedFrames(tracker, Len(tracker.sockets)) < MaxRelayed
        /\ TrackerCommit(Relay(tracker, c, kind, other_peer_id), kind, << c, other_peer_id >>, 1)

\* the client closes the connection: recv yields None and run returns
SocketClosed ==
    \E c \in DOMAIN tracker.sockets :
        /\ tracker.sockets[c].pc = "running"
        /\ TrackerCommit([tracker EXCEPT !.sockets[c].pc = "closed"], "close", << c >>, 0)

TrackerNext ==
    \/ Accept
    \/ RunNewPeer
    \/ RunAssign
    \/ OnRequestOffers
    \/ OnRelay
    \/ SocketClosed

\* State::new and no connection yet
TrackerInit ==
    /\ sf = NewSharedFile(NumPieces, from_missing(NumPieces))
    /\ last = Call("new", << >>, NoneOpt, << "Ok" >>, << >>)
    /\ panicked = NoPanic
    /\ debug_assertions = FALSE
    /\ calls = 0
    /\ probe = NoProbe
    /\ local_peer = NewLocalPeer(CHOOSE params \in SenderParams : TRUE)
    /\ effects = NoEffects
    /\ js_file = NoFile
    /\ wire = NoWire
    /\ tracker = NoTracker
    /\ clients = << >>

TrackerSpec == TrackerInit /\ [][TrackerNext]_vars

(***************************************************************************)
(* Signaling: two LocalPeers connected to the tracker.  clients[c] is the  *)
(* LocalPeer at the far end of connection c: the id it was told, the       *)
(* fingerprints in its registry, its RemotePeers, the messages its         *)
(* websocket has sent that the tracker has not handled yet, and how many   *)
(* frames of tracker.sockets[c] it has handled.  Of a RemotePeer only the  *)
(* signaling is kept: its RemotePeerState, the negotiationneeded event the *)
(* browser has queued for it and the remote description it has set.        *)
(***************************************************************************)
NumClients == 2

\* PeerTrackerMessage
RequestOffersOf(file_sha256) == [message |-> "RequestOffers", peer_id |-> 0, file_sha256 |-> file_sha256]
Signal(kind, peer_id) == [message |-> kind, peer_id |-> peer_id, file_sha256 |-> 0]

NewClient == [peer_id |-> NoneOpt, files |-> {}, peers |-> << >>, to_tracker |-> << >>, received |-> 0]

\* RemotePeer::new: the state follows the kind, and creating the data
\* channel makes the browser queue negotiationneeded
RemotePeerOfKind(kind) ==
    [state |-> kind, has_offer |-> FALSE, negotiationneeded |-> TRUE,
     remote_description |-> "none"]

\* Tracker::send of the LocalPeer
ClientSend(client, message) == [client EXCEPT !.to_tracker = Append(@, message)]

\* RemotePeer::on_peer_offer of the link to peer_id: an Offering link logs
\* an error and goes on like an Answering one
LinkOnPeerOffer(client, peer_id) ==
    ClientSend([client EXCEPT !.peers[peer_id].has_offer = (@ \/ client.peers[peer_id].state = "Answering"),
                              !.peers[peer_id].remote_description = "offer"],
               Signal("SendAnswer", peer_id))

\* RemotePeer::on_peer_answer of the link to peer_id: an Answering link
\* logs an error and returns
LinkOnPeerAnswer(client, peer_id) ==
    IF client.peers[peer_id].state = "Answering" THEN client
    ELSE [client EXCEPT !.peers[peer_id].remote_description = "answer"]

\* LocalPeer::on_tracker_message
OnTrackerMessage(client, m) ==
    CASE m.message = "PeerIdAssigned" -> [client EXCEPT !.peer_id = Some(m.peer_id)]
      [] m.message = "RequestOffer" ->
             IF m.file_sha256 \notin client.files \/ m.peer_id \in DOMAIN client.peers
             THEN client
             ELSE [client EXCEPT !.peers = Put(@, m.peer_id, RemotePeerOfKind("Offering"))]
      [] m.message = "PeerOffer" ->
             LinkOnPeerOffer(IF m.peer_id \in DOMAIN client.peers THEN client
                             ELSE [client EXCEPT !.peers = Put(@, m.peer_id, RemotePeerOfKind("Answering"))],
                             m.peer_id)
      [] m.message = "PeerAnswer" ->
             IF m.peer_id \in DOMAIN client.peers THEN LinkOnPeerAnswer(client, m.peer_id)
             ELSE client
      [] OTHER -> client

\* RemotePeer::on_negotiationneeded of the link to peer_id
OnNegotiationNeeded(client, peer_id) ==
    LET fired == [client EXCEPT !.peers[peer_id].negotiationneeded = FALSE]
    IN IF client.peers[peer_id].state = "Offering"
       THEN ClientSend(fired, Signal("SendOffer", peer_id))
       ELSE IF client.peers[peer_id].has_offer
            THEN ClientSend(fired, Signal("SendAnswer", peer_id))
            ELSE fired

\* Socket::run of connection c up to its receive loop
Connected(t, c) ==
    LET new == StateNewPeer(t, c)
    IN [SocketSend([new.tracker EXCEPT !.sockets[c].peer_id = Some(new.peer_id)],
                   c, PeerIdAssigned(new.peer_id))
           EXCEPT !.sockets[c].pc = "running"]

\* the tracker with connections 1..n in their receive loops
RECURSIVE ConnectedUpTo(_, _)
ConnectedUpTo(t, n) ==
    IF n = 0 THEN t ELSE Connected(ConnectedUpTo(t, n - 1), n)

\* a step of the tracker or of a client
SignalCommit(t, cl, op, args) ==
    /\ tracker' = t
    /\ clients' = cl
    /\ last' = Call(op, args, NoneOpt, << "Ok" >>, << >>)
    /\ UNCHANGED << sf, panicked, debug_assertions, calls, probe, local_peer, effects,
                    js_file, wire >>

\* LocalPeer::add_file of client c for a fingerprint not in its registry
ClientAddFile ==
    \E c \in DOMAIN clients, file_sha256 \in FileIds :
        /\ file_sha256 \notin clients[c].files
        /\ SignalCommit(tracker,
                        [clients EXCEPT ![c] = ClientSend([@ EXCEPT !.files = @ \cup {file_sha256}],
                                                          RequestOffersOf(file_sha256))],
                        "add_file", << c, file_sha256 >>)

\* Socket::run of connection c receives the next message of its client
TrackerReceive ==
    \E c \in DOMAIN clients :
        /\ tracker.sockets[c].pc = "running"
        /\ clients[c].to_tracker # << >>
        /\ LET m == Head(clients[c].to_tracker)
           IN SignalCommit(IF m.message = "RequestOffers"
                           THEN OnRequestOffersMessage(tracker, c, m.file_sha256)
                           ELSE Relay(tracker, c, m.message, m.peer_id),
                           [clients EXCEPT ![c].to_tracker = Tail(@)],
                           m.message, << c, m.peer_id, m.file_sha256 >>)

\* client c handles the next frame the tracker sent it
ClientReceive ==
    \E c \in DOMAIN clients :
        /\ clients[c].received < Len(tracker.sockets[c].frames)
        /\ LET m == tracker.sockets[c].frames[clients[c].received + 1]
           IN SignalCommit(tracker,
                           [clients EXCEPT ![c] = OnTrackerMessage([@ EXCEPT !.received = @ + 1], m)],
                           m.message, << c, m.peer_id, m.file_sha256 >>)

\* the browser of client c delivers negotiationneeded of a link
NegotiationNeeded ==
    \E c \in DOMAIN clients :
        \E peer_id \in DOMAIN clients[c].peers :
            /\ clients[c].peers[peer_id].negotiationneeded
            /\ SignalCommit(tracker,
                            [clients EXCEPT ![c] = OnNegotiationNeeded(@, peer_id)],
                            "negotiationneeded", << c, peer_id, 0 >>)

SignalNext ==
    \/ ClientAddFile
    \/ TrackerReceive
    \/ ClientReceive
    \/ NegotiationNeeded

\* NumClients connections in their receive loops, no file announced
SignalInit ==
    /\ sf = NewSharedFile(NumPieces, from_missing(NumPieces))
    /\ last = Call("new", << >>, NoneOpt, << "Ok" >>, << >>)
    /\ panicked = NoPanic
    /\ debug_assertions = FALSE
    /\ calls = 0
    /\ probe = NoProbe
    /\ local_peer = NewLocalPeer(CHOOSE params \in SenderParams : TRUE)
    /\ effects = NoEffects
    /\ js_file = NoFile
    /\ wire = NoWire
    /\ tracker = ConnectedUpTo([NoTracker EXCEPT !.sockets = [c \in 1..NumClients |-> NewSocket]],
                               NumClients)
    /\ clients = [c \in 1..NumClients |-> NewClient]

SignalSpec == SignalInit /\ [][SignalNext]_vars

(***************************************************************************)
(* The properties of one SharedFile, checked under Spec.                   *)
(***************************************************************************)
WithState == PeersWithState(sf.peers)
View(p) == PeerState(sf.peers, p)
InQueues(i) == QueueHas(sf.piece_queues, i)
Status(i) == sf.piece_queues.pieces[i]
possible_owners(i) == num_piece_possible_owners(sf.peers, i)
confirmed_owners(i) == num_piece_confirmed_owners(sf.peers, i)
\* the bucket keys under which the queues hold piece i
Buckets(f, i) ==
    {k \in 0..(Len(f.piece_queues.queues) - 1) :
        \E n \in 1..Len(f.piece_queues.queues[k + 1]) :
            f.piece_queues.queues[k + 1][n] = i}
Returned(op, ret) == last.op = op /\ last.ret = ret

\* C1: after any sequence of public SharedFile operations, every peer with
\* state has possible[i] wherever it has confirmed[i].
C1_ConfirmedImpliesPossible ==
    \A p \in WithState : \A i \in Pieces : View(p).confirmed[i] => View(p).possible[i]

\* an acknowledgement has just set a confirmed bit, while some piece is sent
\* to a peer and not acknowledged
C1_Witness ==
    /\ Returned("mark_peer_piece_as_received_by_remote", << "Ok", "JustMarked" >>)
    /\ View(last.args[1]).confirmed[last.args[2]]
    /\ \E p \in WithState, i \in Pieces : View(p).possible[i] /\ ~View(p).confirmed[i]

\* C2: after every public mutation, confirmed_remote_state[i] is true exactly
\* when every peer with state has confirmed[i] (all ones without such a peer).
C2_RemoteStateIsAndOfConfirmed ==
    \A i \in Pieces :
        sf.confirmed_remote_state[i] <=> (\A p \in WithState : View(p).confirmed[i])

\* C3: after every public mutation, piece i is in the queues exactly when it
\* is locally present and its possible owners are fewer than the peers with
\* state.
C3_QueuedIffSharable ==
    \A i \in Pieces :
        InQueues(i) <=> (sf.file_state[i] /\ possible_owners(i) < Cardinality(WithState))

\* C4: for every piece in the queues the recorded possible and confirmed owner
\* counts are the numbers of peers with state that have the possible,
\* respectively the confirmed, bit of the piece.
C4_RecordedCountsAreActual ==
    \A i \in Pieces :
        InQueues(i) =>
            /\ Status(i).num_possible_owners = possible_owners(i)
            /\ Status(i).num_confirmed_owners = confirmed_owners(i)

\* C5: a select_piece_peer(piece, now) that succeeds returns a peer with state
\* whose possible[piece] was false; afterwards that bit is true, the possible
\* owners of the piece have grown by one and the piece has moved from bucket k
\* to bucket k + 1, (peer, piece) is appended to sent_pieces[now], and no other
\* bit of any peer has changed.
C5_SelectPostcondition ==
    [][(last'.op = "select_piece_peer" /\ last'.ret = << "Ok" >>) =>
        LET p == last'.val[1]
            i == last'.args[1]
            now == last'.args[2]
            k == sf.piece_queues.pieces[i].num_possible_owners
        IN  /\ p \in PeersWithState(sf.peers)
            /\ ~PeerState(sf.peers, p).possible[i]
            /\ PeerState(sf'.peers, p).possible[i]
            /\ num_piece_possible_owners(sf'.peers, i)
                   = num_piece_possible_owners(sf.peers, i) + 1
            /\ Buckets(sf, i) = {k}
            /\ Buckets(sf', i) = {k + 1}
            /\ sf'.piece_queues.pieces[i].num_possible_owners = k + 1
            /\ sf'.sent_pieces = [sf.sent_pieces EXCEPT ![now] = Append(@, << p, i >>)]
            /\ sf'.peers = [sf.peers EXCEPT ![p].state =
                               Some([PeerState(sf.peers, p) EXCEPT !.possible[i] = TRUE])]
    ]_vars

\* a select has just succeeded with two peers with state, moving the piece
\* from bucket 1 to bucket 2
C5_Witness ==
    /\ Returned("select_piece_peer", << "Ok" >>)
    /\ Cardinality(WithState) = 2
    /\ last.val[1] \in WithState
    /\ Buckets(sf, last.args[1]) = {2}

\* C9: while no peer with state is associated, the queues are empty whatever
\* pieces are locally present, and select_piece_peer returns an error.
C9_NoStateNoQueue ==
    WithState = {} =>
        /\ \A i \in Pieces : ~InQueues(i)
        /\ last.op = "select_piece_peer" => last.ret[1] = "Err"

\* what C10 compares: every peer's view, the set of peers in the order, the
\* confirmed remote state, the pieces in the queues with their owner counts
\* and buckets
Observed(f) ==
    [views |-> [p \in DOMAIN f.peers |->
                   IF IsSome(f.peers[p].state)
                   THEN Some(<< PeerState(f.peers, p).confirmed,
                                PeerState(f.peers, p).possible >>)
                   ELSE NoneOpt],
     order |-> {f.shared_peers_order[k] : k \in 1..Len(f.shared_peers_order)},
     confirmed_remote_state |-> f.confirmed_remote_state,
     queued |-> [i \in {j \in PieceRange(f.num_pieces) : QueueHas(f.piece_queues, j)} |->
                   << f.piece_queues.pieces[i].num_confirmed_owners,
                      f.piece_queues.pieces[i].num_possible_owners,
                      Buckets(f, i) >>]]

\* C10: after set_peer_state(p, bm) the peer has confirmed = possible = bm,
\* and a second set_peer_state(p, bm) succeeds and leaves every peer's view,
\* the peers in the order, the confirmed remote state and the queues with
\* their owner counts as they were after the first.
C10_SetPeerStateIdempotent ==
    Returned("set_peer_state", << "Ok" >>) =>
        LET p == last.args[1]
            bm == Unwrap(last.state)
            again == SetPeerState(sf, p, bm)
        IN  /\ View(p).confirmed = bm
            /\ View(p).possible = bm
            /\ again.panic = NoPanic
            /\ again.ret = << "Ok" >>
            /\ Observed(again.sf) = Observed(sf)


\* the peers the entries of sent_pieces name
SentEntryPeers(f) ==
    UNION {{f.sent_pieces[t][k][1] : k \in 1..Len(f.sent_pieces[t])} : t \in DOMAIN f.sent_pieces}

\* C11: after a remove_peer(p) that succeeds p is in none of peers, the peers
\* order and sent_pieces, and every other peer is as it was; sent_pieces names
\* only peers with state in every state; remove_peer on an unknown id fails
\* with PeerIsNotAdded and changes nothing.
C11_RemovePeerPurges ==
    [][/\ SentEntryPeers(sf') \subseteq PeersWithState(sf'.peers)
       /\ last'.op = "remove_peer" =>
            LET p == last'.args[1]
            IN  /\ p \notin DOMAIN sf.peers <=> last'.ret = << "Err", "PeerIsNotAdded" >>
                /\ last'.ret = << "Err", "PeerIsNotAdded" >> => sf' = sf
                /\ last'.ret = << "Ok" >> =>
                    /\ p \notin DOMAIN sf'.peers
                    /\ \A k \in 1..Len(sf'.shared_peers_order) :
                           sf'.shared_peers_order[k] # p
                    /\ p \notin SentEntryPeers(sf')
                    /\ \A q \in (DOMAIN sf.peers) \ {p} :
                           q \in DOMAIN sf'.peers /\ sf'.peers[q] = sf.peers[q]
    ]_vars

\* what C12 compares: the local bitmap and its cardinality, the recently
\* added pieces, the queues and the views of the peers
Credited(f) ==
    [local |-> f.file_state,
     num_available |-> Cardinality({i \in DOMAIN f.file_state : f.file_state[i]}),
     recently_added_pieces |-> f.recently_added_pieces,
     piece_queues |-> f.piece_queues,
     views |-> [p \in PeersWithState(f.peers) |-> PeerState(f.peers, p)]]

\* C12: for a piece that is locally present, add_local_piece and the receipt
\* of a FilePiece from any peer leave the local bitmap and its cardinality,
\* the recently added pieces, the queues and all peer views as they are, and
\* no piece is among the recently added pieces twice.
C12_DuplicatePieceIsNoOp ==
    /\ \A i \in Pieces :
           sf.file_state[i] =>
               /\ AddLocalPiece(sf, i).panic = NoPanic
               /\ Credited(AddLocalPiece(sf, i).sf) = Credited(sf)
               /\ \A p \in PeerIds :
                      /\ OnPeerMessage(sf, p, FilePiece(i)).panic = NoPanic
                      /\ Credited(OnPeerMessage(sf, p, FilePiece(i)).sf) = Credited(sf)
    /\ \A a, b \in 1..Len(sf.recently_added_pieces) :
           a # b => sf.recently_added_pieces[a] # sf.recently_added_pieces[b]

\* a second add_local_piece of a piece has just been refused while the piece
\* is queued and is among the recently added pieces
C12_Witness ==
    /\ Returned("add_local_piece", << "Err", "PieceIsAlreadySet" >>)
    /\ InQueues(last.args[1])
    /\ \E k \in 1..Len(sf.recently_added_pieces) :
           sf.recently_added_pieces[k] = last.args[1]

\* the step of the tick a message kind is sent in
StepOf(kind) ==
    CASE kind \in {"FileMissing", "FileComplete", "FileState"} -> 1
      [] kind = "FilePiecesReceived" -> 2
      [] kind = "FilePiece" -> 4
      [] OTHER -> 0

\* C17: within one tick the steps run in the order local state, recent
\* acknowledgements, stale sends marked for resend, pieces, all with the now
\* of the tick: the messages of a tick leave in that order, a status the tick
\* changes becomes Sent(now), the first piece selected sees the possible
\* owners left by the marking with threshold now - piece_resend_interval, a
\* tick selects no piece only when the marking leaves no candidate, and the
\* sends the tick records are recorded at now.
C17_TickOrderAndNow ==
    [][(last'.op = "tick" /\ panicked' = NoPanic) =>
        LET now == last'.args[1]
            outbox == effects'.outbox
            threshold == SaturatingSub(now, local_peer.params.piece_resend_interval)
            marked == ResendPiecesBefore(Handling(local_peer, debug_assertions),
                                         Ascending(DOMAIN local_peer.files), threshold)
        IN  /\ local_peer'.now = now
            /\ \A a, b \in 1..Len(outbox) :
                   a < b => /\ StepOf(outbox[a].kind) # 0
                            /\ StepOf(outbox[a].kind) <= StepOf(outbox[b].kind)
            /\ \A f \in DOMAIN local_peer.files :
                   /\ \A p \in DOMAIN local_peer.files[f].peers :
                          LET before == local_peer.files[f].peers[p].local_state_status
                              after == local_peer'.files[f].peers[p].local_state_status
                          IN  after # before => after = Sent(now)
                   /\ \A t \in DOMAIN local_peer'.files[f].sent_pieces :
                          /\ t < threshold => local_peer'.files[f].sent_pieces[t] = << >>
                          /\ t # now =>
                                 local_peer'.files[f].sent_pieces[t]
                                     \in {<< >>, local_peer.files[f].sent_pieces[t]}
            /\ effects'.selected # << >> =>
                   LET call == effects'.selected[1]
                   IN  call.possible_owners
                           = num_piece_possible_owners(marked.lp.files[call.file].peers,
                                                       call.piece_idx)
            /\ effects'.selected = << >> =>
                   \E order \in Orders(DOMAIN local_peer.files) :
                       ScanFiles(marked.lp.files, order, 1, NoneOpt, << >>) = << >>
    ]_vars

\* a tick after time 0 that sent the local state of a file again and then
\* selected a piece none had any more, its earlier send marked stale in the
\* same tick, for a peer whose buffer was still full
C17_Witness ==
    /\ last.op = "tick" /\ panicked = NoPanic /\ local_peer.now > 0
    /\ \E k \in 1..Len(effects.outbox) : StepOf(effects.outbox[k].kind) = 1
    /\ effects.selected # << >>
    /\ effects.selected[1].ok /\ ~effects.selected[1].emitted
    /\ effects.selected[1].possible_owners = 0
    /\ effects.selected[1].peers_with_state = 1
    /\ \E p \in DOMAIN local_peer.peers : local_peer.peers[p].buffered = 1

\* the FilePiece messages of the outbox
PiecesSent(outbox) == {k \in 1..Len(outbox) : outbox[k].kind = "FilePiece"}

\* the candidates of the piece-sending step in the LocalPeer lp that
\* select_piece_peer at the given time gives to a link below the ceiling
Sendable(lp, time) ==
    {c \in UNION {LET found == ScanFiles(lp.files, order, 1, NoneOpt, << >>)
                  IN  {found[k] : k \in 1..Len(found)}
                  : order \in Orders(DOMAIN lp.files)} :
        LET out == SelectPiecePeer(lp.files[c[1]], c[2], time)
        IN  /\ out.panic = NoPanic
            /\ out.ret = << "Ok" >>
            /\ out.val[1] \in DOMAIN lp.peers
            /\ lp.peers[out.val[1]].buffered < lp.params.max_buffer_bytes}

\* C19: a tick in which send_bounded returned BufferFull for one link still
\* sends the pieces selected for the links below the ceiling: it ends with
\* pieces_per_tick pieces sent or with no candidate left for such a link.
C19_BufferFullStopsOneLink ==
    (/\ last.op = "tick" /\ panicked = NoPanic
     /\ \E k \in 1..Len(effects.selected) :
            effects.selected[k].ok /\ ~effects.selected[k].emitted)
    => \/ Cardinality(PiecesSent(effects.outbox)) = local_peer.params.num_pieces_to_be_sent
       \/ Sendable(local_peer, local_peer.now) = {}

\* C20: send_bounded enqueues a message exactly when the buffered count of
\* the link is below max_buffer_bytes and otherwise returns BufferFull and
\* enqueues nothing: a tick adds to the buffer of a link one message for each
\* FilePiece it sends there and never past the ceiling, and the link of the
\* one call that returned BufferFull is at the ceiling.  With a ceiling of 0
\* no FilePiece is written to any link, a tick ends at its first selection,
\* and the state and the acknowledgements still go to every open link.
C20_SendBounded ==
    [][(last'.op = "tick" /\ panicked' = NoPanic) =>
        LET params == local_peer.params
            now == last'.args[1]
            outbox == effects'.outbox
            selected == effects'.selected
            refused == {k \in 1..Len(selected) : selected[k].ok /\ ~selected[k].emitted}
        IN  /\ \A p \in DOMAIN local_peer.peers :
                   LET sent == {k \in PiecesSent(outbox) : outbox[k].to = p}
                   IN  /\ local_peer'.peers[p].buffered
                              = local_peer.peers[p].buffered + Cardinality(sent)
                       /\ sent # {} =>
                              local_peer'.peers[p].buffered <= params.max_buffer_bytes
            /\ Cardinality(PiecesSent(outbox))
                   = Cardinality({k \in 1..Len(selected) : selected[k].emitted})
            /\ \A k \in refused :
                   LET entries == local_peer'.files[selected[k].file].sent_pieces[now]
                   IN  /\ k = Len(selected)
                       /\ entries # << >>
                       /\ entries[Len(entries)][2] = selected[k].piece_idx
                       /\ local_peer'.peers[entries[Len(entries)][1]].buffered
                              >= params.max_buffer_bytes
            /\ params.max_buffer_bytes = 0 =>
                   /\ PiecesSent(outbox) = {}
                   /\ Len(selected) <= 1
                   /\ \A p \in DOMAIN local_peer.peers : local_peer'.peers[p].buffered = 0
                   /\ \A f \in DOMAIN local_peer.files :
                          \A p \in DOMAIN local_peer.files[f].peers :
                              local_peer.peers[p].open =>
                                  /\ local_peer.files[f].peers[p].local_state_status = NotSent
                                         => \E k \in MessagesTo(outbox, f, p) :
                                                StepOf(outbox[k].kind) = 1
                                  /\ local_peer.files[f].recently_added_pieces # << >>
                                         => \E k \in MessagesTo(outbox, f, p) :
                                                /\ outbox[k].kind = "FilePiecesReceived"
                                                /\ outbox[k].body
                                                       = local_peer.files[f].recently_added_pieces
    ]_vars

\* a tick with a ceiling of 0 that sent a state message and an
\* acknowledgement, selected one piece and was refused the send
C20_Witness ==
    /\ last.op = "tick" /\ panicked = NoPanic
    /\ local_peer.params.max_buffer_bytes = 0
    /\ \E k \in 1..Len(effects.outbox) : StepOf(effects.outbox[k].kind) = 1
    /\ \E k \in 1..Len(effects.outbox) : effects.outbox[k].kind = "FilePiecesReceived"
    /\ Len(effects.selected) = 1
    /\ effects.selected[1].ok /\ ~effects.selected[1].emitted

\* C21: a tick sends at most pieces_per_tick FilePiece messages in total,
\* across all files and all links, whatever the queues hold.
C21_AtMostPiecesPerTick ==
    last.op = "tick" =>
        Cardinality(PiecesSent(effects.outbox)) <= local_peer.params.num_pieces_to_be_sent

\* a tick that sent its one piece although a candidate for a link below the
\* ceiling is left
C21_Witness ==
    /\ last.op = "tick" /\ panicked = NoPanic
    /\ local_peer.params.num_pieces_to_be_sent = 1
    /\ Cardinality(PiecesSent(effects.outbox)) = 1
    /\ Sendable(local_peer, local_peer.now) # {}

\* the files of a registry that have something to give: their rarest queued
\* pieces are missed by a peer with state
Giving(files) ==
    {f \in DOMAIN files :
        /\ IsSome(NextQueue(files[f].piece_queues))
        /\ Unwrap(NextQueue(files[f].piece_queues)).key < NumPeersWithState(files[f])}

\* the pairs of file and piece in the minimum buckets of the giving files
\* whose minimum is the least of all giving files
RarestPool(files) ==
    LET MinKey(f) == Unwrap(NextQueue(files[f].piece_queues)).key
        rarest == {f \in Giving(files) : \A g \in Giving(files) : MinKey(f) <= MinKey(g)}
    IN  UNION {LET pieces == Unwrap(NextQueue(files[f].piece_queues)).pieces
               IN  {<< f, pieces[k] >> : k \in 1..Len(pieces)}
               : f \in rarest}

\* C22: the candidate pool the piece-sending step builds consists of exactly
\* the pieces in the minimum bucket of every file whose minimum
\* possible_owners is the least over the files that have something to give,
\* whatever the order the registry yields the files in, and the first piece
\* the tick selects is one of them.
C22_PoolIsGloballyRarest ==
    [][(last'.op = "tick" /\ panicked' = NoPanic) =>
        LET threshold == SaturatingSub(last'.args[1],
                                       local_peer.params.piece_resend_interval)
            marked == ResendPiecesBefore(Handling(local_peer, debug_assertions),
                                         Ascending(DOMAIN local_peer.files), threshold)
            rarest == RarestPool(marked.lp.files)
        IN  /\ \A order \in Orders(DOMAIN local_peer.files) :
                   LET found == ScanFiles(marked.lp.files, order, 1, NoneOpt, << >>)
                   IN  /\ {found[k] : k \in 1..Len(found)} = rarest
                       /\ Len(found) = Cardinality(rarest)
            /\ effects'.selected # << >> =>
                   << effects'.selected[1].file, effects'.selected[1].piece_idx >> \in rarest
    ]_vars

\* the receiver has every piece of the file
ReceiverComplete == \A i \in DOMAIN sf.file_state : sf.file_state[i]

\* nothing is in flight and every piece the receiver added is acknowledged
AllAcknowledged ==
    /\ wire.pieces = << >> /\ wire.acks = << >>
    /\ sf.recently_added_pieces = << >>

\* C23: with one receiver that announced an all-zero state and a lossless
\* transport the receiver's bitmap eventually is all-ones, and once it is and
\* every acknowledgement has reached the sender the sender's
\* confirmed_remote_state is all-ones.
C23_SingleReceiverReplication ==
    /\ <>(panicked # NoPanic \/ ReceiverComplete)
    /\ [](panicked = NoPanic /\ ReceiverComplete /\ AllAcknowledged =>
              \A i \in DOMAIN local_peer.files[1].confirmed_remote_state :
                  local_peer.files[1].confirmed_remote_state[i])

\* C24: in the single-receiver lossless scenario, with every acknowledgement
\* at the sender before piece_resend_interval elapses, no piece is put on
\* the wire to the receiver more than once.
C24_NoPieceSentTwice ==
    \A a, b \in 1..Len(wire.sent) : a # b => wire.sent[a][1] # wire.sent[b][1]

\* every piece was sent and acknowledged, and a tick later than the sends by
\* more than piece_resend_interval has run
C24_Witness ==
    /\ panicked = NoPanic /\ ReceiverComplete /\ AllAcknowledged
    /\ Len(wire.sent) = ReplicaPieces
    /\ last.op = "tick"
    /\ \A k \in 1..Len(wire.sent) :
           wire.sent[k][2] < SaturatingSub(local_peer.now,
                                           local_peer.params.piece_resend_interval)


\* a send of the piece was lost, the piece has not been sent since and the
\* peer has not acknowledged it
Lost(i) ==
    /\ \E send \in wire.lost : send[1] = i
    /\ ~PeerState(local_peer.files[1].peers, 1).confirmed[i]

\* the send is older than piece_resend_interval at the given time
Elapsed(send, time) ==
    send[2] < SaturatingSub(time, local_peer.params.piece_resend_interval)

\* the sender after the resend step of a tick at the given time
Remarked(time) ==
    ResendPiecesBefore(Handle, << 1 >>,
                       SaturatingSub(time, local_peer.params.piece_resend_interval))

\* C25: over a transport that loses FilePiece messages, the resend step of a
\* tick that runs after the piece_resend_interval of a lost send has elapsed
\* marks the piece for resend (its possible bit is cleared), every lost piece
\* is selected and sent again in a later tick, and, every piece being lost
\* only finitely often, the receiver eventually is complete; a lost send
\* counts until the piece is sent again or the peer acknowledges it
C25_LostPiecesAreResent ==
    /\ [][last'.op = "tick" /\ panicked' = NoPanic =>
              \A send \in wire.lost :
                  Lost(send[1]) =>
                      /\ Elapsed(send, local_peer'.now) =>
                             ~PeerState(Remarked(local_peer'.now).lp.files[1].peers,
                                        1).possible[send[1]]
                      /\ ~Lost(send[1])' =>
                             \E k \in 1..Len(effects'.selected) :
                                 /\ effects'.selected[k].piece_idx = send[1]
                                 /\ effects'.selected[k].ok
                                 /\ effects'.selected[k].emitted]_vars
    /\ \A i \in PieceRange(ReplicaPieces) : Lost(i) ~> (panicked # NoPanic \/ ~Lost(i))
    /\ <>(panicked # NoPanic \/ ReceiverComplete)

\* a tick has sent again a piece whose first send was lost: the receiver lacks
\* the piece, which was sent twice and is on the wire once
C25_Witness ==
    /\ panicked = NoPanic /\ last.op = "tick" /\ wire.lost = {}
    /\ \E i \in PieceRange(ReplicaPieces) :
           /\ ~sf.file_state[i]
           /\ Cardinality({k \in 1..Len(wire.sent) : wire.sent[k][1] = i}) = 2
           /\ Cardinality({k \in 1..Len(wire.pieces) : wire.pieces[k] = i}) = 1


\* the messages that carry the state of a file, and the bitmap each carries
\* for a file of the given number of pieces
StateMessages ==
    {FileMissing, FileComplete}
        \cup {FileStateMsg(state) : state \in FileBitmaps \cup {from_missing(FilePieces + 1)}}

Carried(message, num_pieces) ==
    IF message.kind = "FileMissing" THEN from_missing(num_pieces)
    ELSE IF message.kind = "FileComplete" THEN from_complete(num_pieces)
    ELSE message.state

\* the step is on_peer_message of peer p for file f ending as h
Handled(h, p, f) ==
    /\ last' = Call("on_peer_message", << p, f >>, NoneOpt,
                    IF h.panic # NoPanic THEN << "panic" >> ELSE << "Ok" >>, << >>)
    /\ effects' = [outbox |-> h.outbox, selected |-> h.selected]
    /\ panicked' = h.panic
    /\ local_peer' = IF h.panic # NoPanic THEN local_peer ELSE h.lp

C27_AddFileOnce ==
    [][\A f \in FileIds :
           last'.op = "add_file" /\ last'.args = << f >> =>
               IF f \in DOMAIN local_peer.files
               THEN /\ last'.ret = << "Err", "AlreadyAdded" >>
                    /\ effects'.outbox = << >>
                    /\ local_peer'.files = local_peer.files
               ELSE /\ last'.ret = << "Ok" >>
                    /\ DOMAIN local_peer'.files = DOMAIN local_peer.files \cup {f}
                    /\ local_peer'.files[f] # Dropped
                    /\ \A g \in DOMAIN local_peer.files :
                           local_peer'.files[g] = local_peer.files[g]
                    /\ effects'.outbox = << Message(Tracker, f, "RequestOffers", << >>) >>]_vars

\* add_file has failed for a fingerprint that is in the registry next to
\* another one
C27_Witness ==
    /\ last.op = "add_file" /\ last.ret = << "Err", "AlreadyAdded" >>
    /\ effects.outbox = << >>
    /\ Cardinality(DOMAIN local_peer.files) = 2


(***************************************************************************)
(* The properties of the tracker, checked under TrackerSpec.               *)
(***************************************************************************)
FramesTo(c) == tracker.sockets[c].frames
Assignments(c) == {k \in DOMAIN FramesTo(c) : FramesTo(c)[k].message = "PeerIdAssigned"}

\* C28: every connection is sent PeerIdAssigned exactly once and before any
\* other frame, whatever the other connections' handlers do meanwhile, and
\* the id it carries is the id of no other connection.
C28_PeerIdAssignedFirst ==
    \A c \in DOMAIN tracker.sockets :
        /\ FramesTo(c) # << >> => FramesTo(c)[1].message = "PeerIdAssigned"
        /\ Cardinality(Assignments(c)) <= 1
        /\ tracker.sockets[c].pc \in {"running", "closed"} =>
               /\ Cardinality(Assignments(c)) = 1
               /\ FramesTo(c)[1] = PeerIdAssigned(Unwrap(tracker.sockets[c].peer_id))
        /\ \A d \in DOMAIN tracker.sockets :
               /\ d # c
               /\ IsSome(tracker.sockets[c].peer_id)
               /\ IsSome(tracker.sockets[d].peer_id)
               => tracker.sockets[c].peer_id # tracker.sockets[d].peer_id

\* the frames the step has sent to connection d
NewFramesTo(d) ==
    SubSeq(tracker'.sockets[d].frames, Len(tracker.sockets[d].frames) + 1,
           Len(tracker'.sockets[d].frames))

\* connection d is that of a connected peer that has announced the file
Interested(d, file_sha256) ==
    /\ tracker.sockets[d].pc = "running"
    /\ Unwrap(tracker.sockets[d].peer_id) \in FilePeers(tracker, file_sha256)

\* C29: when the tracker handles RequestOffers{f} of peer p, p is among the
\* peers of f afterwards, every other connected peer that announced f before
\* is sent exactly one frame, RequestOffer with f and p's id, and p and the
\* peers that never announced f are sent nothing.
C29_RequestOffersFanOut ==
    [][calls' = calls + 1 /\ last'.op = "RequestOffers" =>
          LET c == last'.args[1]
              f == last'.args[2]
              p == Unwrap(tracker.sockets[c].peer_id)
          IN /\ p \in FilePeers(tracker', f)
             /\ \A d \in DOMAIN tracker.sockets :
                    NewFramesTo(d) = IF d # c /\ Interested(d, f)
                                     THEN << RequestOffer(p, f) >>
                                     ELSE << >>]_vars

(***************************************************************************)
(* The peers order of one SharedFile, checked under Spec.                  *)
(***************************************************************************)
\* C30: after any calls of add_peer, set_peer_state and remove_peer the peers
\* order holds exactly the peers that have state, each once, and the peer_idx
\* stored with each of them is its position in the order.
C30_PeersOrderConsistent ==
    /\ {sf.shared_peers_order[k] : k \in DOMAIN sf.shared_peers_order} = PeersWithState(sf.peers)
    /\ Len(sf.shared_peers_order) = Cardinality(PeersWithState(sf.peers))
    /\ \A p \in PeersWithState(sf.peers) :
           /\ Unwrap(sf.peers[p].state).peer_idx < Len(sf.shared_peers_order)
           /\ sf.shared_peers_order[Unwrap(sf.peers[p].state).peer_idx + 1] = p

(***************************************************************************)
(* Resend marking and acknowledgement of one SharedFile, checked under     *)
(* Spec.                                                                   *)
(***************************************************************************)
\* the (peer, piece) entries of sent_pieces with a time in the given set
SentEntries(f, ts) ==
    UNION {{f.sent_pieces[t][k] : k \in 1..Len(f.sent_pieces[t])} : t \in ts \cap DOMAIN f.sent_pieces}

EntriesSentBefore(f, cutoff) == SentEntries(f, {t \in DOMAIN f.sent_pieces : t < cutoff})
EntriesSentFrom(f, cutoff) == SentEntries(f, {t \in DOMAIN f.sent_pieces : t >= cutoff})

\* C31: mark_pieces_for_resend_before(cutoff) takes out of sent_pieces exactly
\* the entries sent before cutoff and treats each of them as
\* mark_for_resend_if_not_sent does (the possible bit of a peer that has not
\* confirmed the piece is cleared); the entries sent at cutoff or later stay,
\* and the possible bits of their peers and the owner counts of their pieces
\* are as they were.
C31_ResendBeforeCutoff ==
    [][calls' = calls + 1 /\ last'.op = "mark_pieces_for_resend_before" =>
          LET cutoff == last'.args[1] IN
          /\ last'.ret = << "Ok" >>
          /\ \A t \in DOMAIN sf.sent_pieces :
                 sf'.sent_pieces[t] = IF t < cutoff THEN << >> ELSE sf.sent_pieces[t]
          /\ \A e \in EntriesSentBefore(sf, cutoff) :
                 /\ e[1] \in PeersWithState(sf'.peers)
                 /\ PeerState(sf'.peers, e[1]).possible[e[2]]
                        = PeerState(sf.peers, e[1]).confirmed[e[2]]
          /\ \A e \in EntriesSentFrom(sf, cutoff) \ EntriesSentBefore(sf, cutoff) :
                 /\ e[1] \in PeersWithState(sf'.peers)
                 /\ PeerState(sf'.peers, e[1]).possible[e[2]]
                        = PeerState(sf.peers, e[1]).possible[e[2]]
                 /\ (\A b \in EntriesSentBefore(sf, cutoff) : b[2] # e[2]) =>
                        /\ sf'.piece_queues.pieces[e[2]].num_possible_owners
                               = sf.piece_queues.pieces[e[2]].num_possible_owners
                        /\ sf'.piece_queues.pieces[e[2]].num_confirmed_owners
                               = sf.piece_queues.pieces[e[2]].num_confirmed_owners
    ]_vars

\* C32: once mark_peer_piece_as_received_by_remote(p, i) has returned Ok,
\* sent_pieces holds no entry (p, i).
C32_AcknowledgedEntryRemoved ==
    [][/\ calls' = calls + 1
       /\ last'.op = "mark_peer_piece_as_received_by_remote"
       /\ last'.ret[1] = "Ok"
       => << last'.args[1], last'.args[2] >> \notin SentEntries(sf', DOMAIN sf'.sent_pieces)
    ]_vars

\* the candidates the scan of the piece-sending step finds in the files when
\* they are scanned in the given order
ScanFound(files, order) ==
    LET found == ScanFiles(files, order, 1, NoneOpt, << >>)
    IN  {found[k] : k \in 1..Len(found)}

\* C33: a file that has nothing to give (its minimum bucket key is not below
\* its number of peers with state) is ignored by the scan of the
\* piece-sending step: in whatever order the files are scanned, the
\* candidates are those the scan finds among the giving files alone, so a
\* tick has a candidate whenever some file gives.
C33_IdleFilesAreIgnored ==
    [][(last'.op = "tick" /\ panicked' = NoPanic) =>
        LET threshold == SaturatingSub(last'.args[1],
                                       local_peer.params.piece_resend_interval)
            marked == ResendPiecesBefore(Handling(local_peer, debug_assertions),
                                         Ascending(DOMAIN local_peer.files), threshold)
            files == marked.lp.files
            Gives(f) == f \in Giving(files)
        IN  \A order \in Orders(DOMAIN files) :
                /\ ScanFound(files, order) = ScanFound(files, SelectSeq(order, Gives))
                /\ Giving(files) # {} => ScanFound(files, order) # {}
    ]_vars

(***************************************************************************)
(* The status a piece is queued with, checked under QueueSpec.             *)
(***************************************************************************)
\* the status remove would return for a queued piece
QueuedStatus(q, piece_idx) == QueueRemove(q, piece_idx).data

\* C34: remove(piece) returns the status given to the most recent insertion
\* of the piece, its owner counts and its peer_shift: an insertion leaves the
\* piece queued with the status it was given, no step but the removal of the
\* piece changes that status, and the removal returns it.
C34_RemoveReturnsInserted ==
    [][/\ (last'.op = "insert" /\ last'.ret = << "Ok" >>) =>
              /\ QueueHas(sf'.piece_queues, last'.args[1])
              /\ QueuedStatus(sf'.piece_queues, last'.args[1])
                     = [peer_shift |-> last'.args[4],
                        num_confirmed_owners |-> last'.args[3],
                        num_possible_owners |-> last'.args[2]]
       /\ \A i \in DOMAIN sf.piece_queues.pieces :
              (QueueHas(sf.piece_queues, i) /\ QueueHas(sf'.piece_queues, i)) =>
                  QueuedStatus(sf'.piece_queues, i) = QueuedStatus(sf.piece_queues, i)
       /\ (last'.op = "remove" /\ last'.ret = << "Ok" >>) =>
              /\ QueueHas(sf.piece_queues, last'.args[1])
              /\ ~QueueHas(sf'.piece_queues, last'.args[1])
              /\ last'.val = << QueuedStatus(sf.piece_queues, last'.args[1]) >>
    ]_vars

(***************************************************************************)
(* The failures of select_piece_peer, checked under Spec.                  *)
(***************************************************************************)
\* C35: a select_piece_peer that returns an error, PieceIsAlreadyOwned or
\* PieceIndexOutOfRange, leaves the SharedFile as it was: the piece is still
\* queued with the same status, and no view of a peer and no entry of
\* sent_pieces has changed.
C35_FailedSelectChangesNothing ==
    [][(calls' = calls + 1 /\ last'.op = "select_piece_peer" /\ last'.ret[1] = "Err") =>
          /\ sf'.piece_queues = sf.piece_queues
          /\ sf'.peers = sf.peers
          /\ sf'.sent_pieces = sf.sent_pieces
          /\ sf' = sf
    ]_vars

(***************************************************************************)
(* The selections of the piece-sending step, checked under PeerSpec.       *)
(***************************************************************************)
\* C36: in every state a peer reaches through its handlers and ticks in any
\* order, every select_piece_peer call the piece-sending step of a tick has
\* made returned a peer, and the tick did not abort on the unwrap of its
\* result.
C36_SelectionsSucceed ==
    /\ \A k \in 1..Len(effects.selected) : effects.selected[k].ok
    /\ last.op = "tick" => panicked # "unwrap"

(***************************************************************************)
(* The pieces the marking operations look up, checked under Spec.          *)
(***************************************************************************)
\* C37: after any calls, a piece that is locally present and that some peer
\* with state has not confirmed is in the queues, and neither
\* mark_peer_piece_as_received_by_remote nor mark_for_resend_if_not_sent (nor
\* mark_pieces_for_resend_before, which calls it) has aborted.
C37_UnconfirmedPiecesAreQueued ==
    /\ \A i \in Pieces :
           (sf.file_state[i] /\ \E p \in WithState : ~View(p).confirmed[i]) => InQueues(i)
    /\ last.op \in {"mark_peer_piece_as_received_by_remote", "mark_for_resend_if_not_sent",
                    "mark_pieces_for_resend_before"}
           => last.ret # << "panic" >>

(***************************************************************************)
(* Acknowledgements that are lost, checked under AckLossSpec.              *)
(***************************************************************************)
\* the receiver holds piece i, which the sender has sent, and the sender has
\* not recorded it as confirmed
Unconfirmed(i) ==
    /\ sf.file_state[i]
    /\ \E k \in 1..Len(wire.sent) : wire.sent[k][1] = i
    /\ ~PeerState(local_peer.files[1].peers, 1).confirmed[i]

AcknowledgementLost(i) ==
    /\ sf.file_state[i]
    /\ \A k \in 1..Len(sf.recently_added_pieces) : sf.recently_added_pieces[k] # i
    /\ \A k \in 1..Len(wire.acks) : \A j \in 1..Len(wire.acks[k]) : wire.acks[k][j] # i
    /\ ~PeerState(local_peer.files[1].peers, 1).confirmed[i]

\* no step of the sender, the receiver or the wire ends that condition: a
\* piece the receiver holds already is not acknowledged again, at whatever
\* time the sender sends it again
LostAcknowledgementStaysLost ==
    [][\A i \in PieceRange(ReplicaPieces) :
           (AcknowledgementLost(i) /\ panicked' = NoPanic) => AcknowledgementLost(i)']_vars


(***************************************************************************)
(* A fingerprint announced twice on one connection, checked under          *)
(* TrackerSpec.                                                            *)
(***************************************************************************)
\* connection c has announced file_sha256 before
AnnouncedBefore(t, c, file_sha256) ==
    /\ IsSome(t.sockets[c].peer_id)
    /\ Unwrap(t.sockets[c].peer_id) \in FilePeers(t, file_sha256)

\* C40: a RequestOffers for a fingerprint the connection has announced before
\* does not end the connection's handler: the connection is still in its
\* receive loop afterwards, so its later messages are relayed.
C40_RepeatedAnnouncementKeepsConnection ==
    [][\A c \in DOMAIN tracker.sockets, file_sha256 \in FileIds :
           (/\ last'.op = "RequestOffers"
            /\ last'.args = << c, file_sha256 >>
            /\ calls' = calls + 1
            /\ AnnouncedBefore(tracker, c, file_sha256))
           => tracker'.sockets[c].pc = "running"]_vars


(***************************************************************************)
(* The roles of the two ends of a link, checked under SignalSpec.          *)
(***************************************************************************)
\* the peer id of the client of connection c
IdOf(c) == Unwrap(tracker.sockets[c].peer_id)
\* client c has a RemotePeer for the client of connection d
Linked(c, d) == IdOf(d) \in DOMAIN clients[c].peers
\* the RemotePeerState of that RemotePeer
RoleOf(c, d) == clients[c].peers[IdOf(d)].state

\* C39: when two peers have a RemotePeer for each other, one of the two is
\* Offering and the other Answering, in whatever order the peers announce
\* their files; a PeerOffer is never handled by an Offering RemotePeer and a
\* PeerAnswer never by an Answering one.
C39_OneOfferingOneAnswering ==
    /\ [](\A c \in 1..NumClients, d \in 1..NumClients :
              (c # d /\ Linked(c, d) /\ Linked(d, c))
              => {RoleOf(c, d), RoleOf(d, c)} = {"Offering", "Answering"})
    /\ [][\A c \in 1..NumClients :
              /\ (last'.op = "PeerOffer" /\ last'.args[1] = c)
                 => clients'[c].peers[last'.args[2]].state = "Answering"
              /\ (last'.op = "PeerAnswer" /\ last'.args[1] = c
                  /\ last'.args[2] \in DOMAIN clients'[c].peers)
                 => clients'[c].peers[last'.args[2]].state = "Offering"]_vars

=============================================================================
